---------------------------- MODULE Spec2Model ----------------------------
(***************************************************************************)
(* n-ohlcv: ingestion of one-minute candles (sync_data, process_data_chunk)*)
(* into the block store (db.rs) and resampling of candles into bars        *)
(* (convert_to_timeframe), as written in src/src/timeframe.rs.             *)
(*                                                                         *)
(* Two state machines share the variables:                                 *)
(*   Spec      sync_data against a remote kline source and the store;      *)
(*   SpecConv  the sequence of convert_to_timeframe calls of one           *)
(*             get_data_window after another.                              *)
(*                                                                         *)
(* Numbers.  Timestamps are milliseconds and keep the source's constants   *)
(* (60000 ms per candle, 1000 candles per block).  TLC's integers are 32   *)
(* bits wide, so the block starts used are small multiples of the block    *)
(* span instead of present-day epoch values; the epoch origin itself is    *)
(* left out, since 0 is the store's "no data" sentinel and no candle of    *)
(* 1970 exists.  An f64 price is the exact quotient n / d, written         *)
(* <<n, d>>; a volume is a natural number of lots.                         *)
(*                                                                         *)
(* Batches.  A Vec<KLine> that the remote source returned (a fetched       *)
(* batch, recent_data, a stored block) is held as a run: its first         *)
(* open_time, its length and the place of its gap, if it has one.          *)
(* RunCandles gives the candles themselves; RunLen and RunTime are         *)
(* data.len() and data[i].open_time.  The resampler works on plain         *)
(* sequences of candles.                                                   *)
(***************************************************************************)
EXTENDS Integers, Sequences, FiniteSets, TLC

(***************************************************************************)
(* Program constants.                                                      *)
(***************************************************************************)
BLOCK_SIZE == 1000
MINUTE_MS == 60000
SYNC_STEP_MS == 60000000
FULL_BATCH_LEN == 1000
FETCH_LIMIT == 1000
PRICE_MULTIPLIER == 2
ScenarioTf == 15
WINDOW_SIZE == 200
ZOOM_DIVISOR == 20
RectWidth == 60
UPDATE_INTERVAL == 300
SLEEP_SECS == 10
CHUNK_WINDOW_MS == 300000
STATUS_MESSAGE_MAX_COUNT == 8

(***************************************************************************)
(* Bounds of the model.                                                    *)
(***************************************************************************)
MaxTf == 3
MaxFed == 5
MaxChunk == 2
MaxBlock == 2
MaxInserts == 2
MaxBars == 3
MaxPolls == 2
MaxClicks == 2
MaxPending == 2
MaxMore == 2
MaxHours == 2

VARIABLES
    timeframe_remainder,  \* DataWindow.timeframe_remainder
    recent_data,          \* DataWindow.recent_data
    bars,                 \* get_data_window's local `bars`
    timeframe_minutes,    \* the timeframe of the current get_data_window
    flushed,              \* the final (dolastbar) call of the window was made
    fed,                  \* history: every candle passed in this window
    lastCall,             \* history: "none", or the latest call: "block" | "tail"
    lastRemainder,        \* history: timeframe_remainder before the latest call
    lastKlines,           \* history: the klines argument of the latest call
    lastResult,           \* history: the bars returned by the latest call
    db_blocks,            \* the store: <<symbol, block start>> -> candles
    db_last,              \* the store: symbol -> "last_{symbol}" pointer
    sync_pc,              \* sync_data: "idle" (not running) | "loop"
    start_time,           \* sync_data's arguments
    end_time,
    last_timestamp,       \* sync_data's local: the pointer read at entry
    current_time,         \* sync_data's local
    sync_result,          \* what the latest sync_data returned, by kind
    requests,             \* history: start times fetched by this sync_data
    complete,             \* history: every batch it received so far was what a
                          \*          source holding each minute up to end_time returns
    lastBatch,            \* history: the latest batch received
    lastOutcome,          \* history: what process_data_chunk returned for it
    lastInsert,           \* history: what insert_block returned for it:
                          \*          "none" (not called) | "ok" | "failed"
    fetched,              \* history: the batches this sync_data received
    repeatOfPersisted,    \* history: this sync repeats a successful one whose
                          \*          range was wholly persisted at entry
    slept                 \* history: for each request of this sync, whether
                          \*          thread::sleep ran right before it

VARIABLES
    tree,                 \* the sled tree: key -> value, as bytes
    tx,                   \* insert_block's transaction: where it is, its
                          \*   arguments and the writes it holds
    hist,                 \* history: what the committed insert_blocks wrote
    nInserts,             \* history: insert_block calls begun
    read                  \* history: the latest read and what it returned

VARIABLES
    dw_bars,              \* DataWindow.bars, each bar by its low and high
    visible_range,        \* DataWindow.visible_range = <<start, end>>
    price,                \* DataWindow.price = <<min, max>>
    min_indexes,          \* DataWindow.min_indexes: None or Some(indexes)
    max_indexes,          \* DataWindow.max_indexes
    cached_visible_range, \* DataWindow.cached_visible_range: None or Some(range)
    pixel_offset,         \* DataWindow.pixel_offset, in pixels
    view_pc,              \* the display loop: "running" | "panicked"
    view_result,          \* what get_data_window returned in the latest
                          \*   frame; none when the frame did not call it
    lastReads,            \* history: the store entries of the blocks the
                          \*          latest get_data_window asked for
    pricedRange           \* history: visible_range at the latest call of
                          \*          update_price_range_extrema

VARIABLES
    loop_pc,              \* update_loop: "running" | "returned"
    loop_now,             \* the clock of update_loop, seconds since its call
    timer,                \* when `timer` was last set, on that clock
    loop_result,          \* what update_loop returned
    fetch_failures        \* history: the fetches of update_loop that failed

VARIABLES
    status_messages       \* InteractiveGui.status_messages, each message by
                          \*   what it reports: "error" | "updated"

VARIABLES
    dbts,                 \* a get_dbtimestamp call chain: the timestamp, the
                          \*   block start of it, the block start of that
    pending,              \* input events (drag, scroll, button) that egui
                          \*   holds for the next call of update
    cached_max_volume,    \* DataWindow.cached_max_volume: None or Some(volume)
    max_volume,           \* what get_max_volume returned, when the latest
                          \*   call on the DataWindow was get_max_volume
    rsi_calculator,       \* get_data_window's local rsi_calculator: the
                          \*   WilderRSI state, or None outside a rebuild
    rsi_out               \* what the latest WilderRSI add returned

VARIABLES
    rb                    \* one get_data_window followed block by block: where
                          \*   it is, the blocks the store holds, and what was
                          \*   cut from each block it loaded

VARIABLES
    ag                    \* the store as aggregate_ohlcv_data sees it: the
                          \*   one-candle records of the symbol, the hourly
                          \*   records of "{symbol}_aggr" and their pointers

storeVars == <<tree, tx, hist, nInserts, read>>
moreVars == <<rb, ag>>
extraVars == <<dbts, pending, cached_max_volume, max_volume, rsi_calculator, rsi_out,
               moreVars>>
loopVars == <<loop_pc, loop_now, timer, loop_result, fetch_failures>>
viewVars == <<dw_bars, visible_range, price, min_indexes, max_indexes,
              cached_visible_range, pixel_offset, view_pc, view_result,
              lastReads, pricedRange>>
auxVars == <<storeVars, viewVars, loopVars, extraVars, status_messages>>

convVars == <<timeframe_remainder, bars, timeframe_minutes, flushed, fed,
              lastCall, lastRemainder, lastKlines, lastResult>>
dbVars == <<db_blocks, db_last>>
syncVars == <<sync_pc, start_time, end_time, last_timestamp, current_time,
              sync_result, requests, complete, lastBatch, lastOutcome,
              lastInsert, fetched, repeatOfPersisted, slept>>
vars == <<convVars, recent_data, dbVars, syncVars, auxVars>>

MaxOf(S) == CHOOSE x \in S : \A y \in S : y <= x
MinOf(S) == CHOOSE x \in S : \A y \in S : x <= y

(***************************************************************************)
(* Candles and f64 values.                                                 *)
(***************************************************************************)
KLine(t, o, h, l, c, v) ==
    [open_time |-> t, open |-> o, high |-> h, low |-> l, close |-> c, volume |-> v]

Pow10(n) == IF n = 0 THEN 1 ELSE IF n = 1 THEN 10 ELSE IF n = 2 THEN 100 ELSE 1000

\* kline.open as f64 / 10f64.powi(PRICE_MULTIPLIER as i32)
ToPrice(p) == <<p, Pow10(PRICE_MULTIPLIER)>>

\* f64::MIN and f64::MAX: below and above every price
F64_MIN == <<-1, 0>>
F64_MAX == <<1, 0>>

FLess(a, b) == a[1] * b[2] < b[1] * a[2]
FMax(a, b) == IF FLess(a, b) THEN b ELSE a
FMin(a, b) == IF FLess(b, a) THEN b ELSE a

(***************************************************************************)
(* convert_to_timeframe.                                                   *)
(***************************************************************************)
ConvLocals ==
    [result |-> <<>>, current_open_time |-> 0, current_open |-> <<0, 1>>,
     current_high |-> F64_MIN, current_low |-> F64_MAX, current_volume |-> 0,
     count |-> 0]

\* ConvBody with the emission test `count > tf`: a group one candle too long
ConvBody_LateEmit(acc, kline, index, len, tf, dolastbar) ==
    LET open_time == IF acc.count = 0 THEN kline.open_time ELSE acc.current_open_time
        open == IF acc.count = 0 THEN ToPrice(kline.open) ELSE acc.current_open
        high == FMax(acc.current_high, ToPrice(kline.high))
        low == FMin(acc.current_low, ToPrice(kline.low))
        volume == acc.current_volume + kline.volume
        count == acc.count + 1
    IN  IF count > tf \/ (dolastbar /\ index = len - 1)
        THEN [result |-> Append(acc.result,
                                [time |-> open_time, open |-> open, high |-> high,
                                 low |-> low, close |-> ToPrice(kline.close),
                                 volume |-> volume]),
              current_open_time |-> open_time, current_open |-> open,
              current_high |-> F64_MIN, current_low |-> F64_MAX,
              current_volume |-> 0, count |-> 0]
        ELSE [result |-> acc.result,
              current_open_time |-> open_time, current_open |-> open,
              current_high |-> high, current_low |-> low,
              current_volume |-> volume, count |-> count]

\* ConvBody that forgets to reset current_high after a bar is pushed
ConvBody_NoHighReset(acc, kline, index, len, tf, dolastbar) ==
    LET open_time == IF acc.count = 0 THEN kline.open_time ELSE acc.current_open_time
        open == IF acc.count = 0 THEN ToPrice(kline.open) ELSE acc.current_open
        high == FMax(acc.current_high, ToPrice(kline.high))
        low == FMin(acc.current_low, ToPrice(kline.low))
        volume == acc.current_volume + kline.volume
        count == acc.count + 1
    IN  IF count >= tf \/ (dolastbar /\ index = len - 1)
        THEN [result |-> Append(acc.result,
                                [time |-> open_time, open |-> open, high |-> high,
                                 low |-> low, close |-> ToPrice(kline.close),
                                 volume |-> volume]),
              current_open_time |-> open_time, current_open |-> open,
              current_high |-> high, current_low |-> F64_MAX,
              current_volume |-> 0, count |-> 0]
        ELSE [result |-> acc.result,
              current_open_time |-> open_time, current_open |-> open,
              current_high |-> high, current_low |-> low,
              current_volume |-> volume, count |-> count]

\* ConvBody whose last-candle test is `index == len`: never true inside the loop
ConvBody_NoLastBar(acc, kline, index, len, tf, dolastbar) ==
    LET open_time == IF acc.count = 0 THEN kline.open_time ELSE acc.current_open_time
        open == IF acc.count = 0 THEN ToPrice(kline.open) ELSE acc.current_open
        high == FMax(acc.current_high, ToPrice(kline.high))
        low == FMin(acc.current_low, ToPrice(kline.low))
        volume == acc.current_volume + kline.volume
        count == acc.count + 1
    IN  IF count >= tf \/ (dolastbar /\ index = len)
        THEN [result |-> Append(acc.result,
                                [time |-> open_time, open |-> open, high |-> high,
                                 low |-> low, close |-> ToPrice(kline.close),
                                 volume |-> volume]),
              current_open_time |-> open_time, current_open |-> open,
              current_high |-> F64_MIN, current_low |-> F64_MAX,
              current_volume |-> 0, count |-> 0]
        ELSE [result |-> acc.result,
              current_open_time |-> open_time, current_open |-> open,
              current_high |-> high, current_low |-> low,
              current_volume |-> volume, count |-> count]

\* one iteration of `for (index, kline) in combined_klines.iter().enumerate()`
ConvBody(acc, kline, index, len, tf, dolastbar) ==
    LET price_open == ToPrice(kline.open)
        price_high == ToPrice(kline.high)
        price_low == ToPrice(kline.low)
        price_close == ToPrice(kline.close)
        open_time == IF acc.count = 0 THEN kline.open_time ELSE acc.current_open_time
        open == IF acc.count = 0 THEN price_open ELSE acc.current_open
        high == FMax(acc.current_high, price_high)
        low == FMin(acc.current_low, price_low)
        volume == acc.current_volume + kline.volume
        count == acc.count + 1
    IN  IF count >= tf \/ (dolastbar /\ index = len - 1)
        THEN [result |-> Append(acc.result,
                                [time |-> open_time, open |-> open, high |-> high,
                                 low |-> low, close |-> price_close, volume |-> volume]),
              current_open_time |-> open_time, current_open |-> open,
              current_high |-> F64_MIN, current_low |-> F64_MAX,
              current_volume |-> 0, count |-> 0]
        ELSE [result |-> acc.result,
              current_open_time |-> open_time, current_open |-> open,
              current_high |-> high, current_low |-> low,
              current_volume |-> volume, count |-> count]

\* The iterations lo .. hi-1 of the loop, in the source's order.  The range is
\* run by halves, the first half evaluated before the second starts, only to
\* keep the evaluation depth logarithmic in the number of candles.
RECURSIVE ConvLoop(_, _, _, _, _, _)
ConvLoop(acc, combined, lo, hi, tf, dolastbar) ==
    IF hi <= lo THEN acc
    ELSE IF hi = lo + 1
         THEN ConvBody(acc, combined[lo + 1], lo, Len(combined), tf, dolastbar)
         ELSE LET mid == (lo + hi) \div 2
                  first == ConvLoop(acc, combined, lo, mid, tf, dolastbar)
              IN  IF first.count >= 0
                  THEN ConvLoop(first, combined, mid, hi, tf, dolastbar)
                  ELSE first

\* convert_to_timeframe that does not prepend the stored remainder
convert_to_timeframe_DropRemainder(klines, tf, dolastbar, remainder) ==
    LET n == Len(klines)
        out == ConvLoop(ConvLocals, klines, 0, n, tf, dolastbar)
    IN  [result |-> out.result,
         remainder |-> IF out.count > 0 THEN SubSeq(klines, n - out.count + 1, n)
                       ELSE <<>>]

\* convert_to_timeframe that keeps the first `count` candles: combined[..count]
convert_to_timeframe_HeadRemainder(klines, tf, dolastbar, remainder) ==
    LET combined_klines == remainder \o klines
        n == Len(combined_klines)
        out == ConvLoop(ConvLocals, combined_klines, 0, n, tf, dolastbar)
    IN  [result |-> out.result,
         remainder |-> IF out.count > 0 THEN SubSeq(combined_klines, 1, out.count)
                       ELSE <<>>]

\* the whole function: returned bars and the new timeframe_remainder
convert_to_timeframe(klines, tf, dolastbar, remainder) ==
    LET combined_klines == remainder \o klines
        n == Len(combined_klines)
        out == ConvLoop(ConvLocals, combined_klines, 0, n, tf, dolastbar)
    IN  [result |-> out.result,
         remainder |-> IF out.count > 0
                       THEN SubSeq(combined_klines, n - out.count + 1, n)
                       ELSE <<>>]

(***************************************************************************)
(* Runs of candles.                                                        *)
(***************************************************************************)
EmptyRun == [first |-> 0, len |-> 0, gapAt |-> 0]

\* data.len()
RunLen(data) == data.len

\* data[i].open_time, i from 0 as in the source
RunTime(data, i) ==
    data.first + i * MINUTE_MS
        + (IF data.gapAt > 0 /\ i >= data.gapAt THEN MINUTE_MS ELSE 0)

\* open, high, low, close and volume of the candles of a run
RunShape == <<10000, 12000, 9000, 11000, 3>>

\* the Vec<KLine> itself
RunCandles(data) ==
    [i \in 1 .. RunLen(data) |->
        KLine(RunTime(data, i - 1), RunShape[1], RunShape[2], RunShape[3],
              RunShape[4], RunShape[5])]

(***************************************************************************)
(* The block store (db.rs), for the keys sync_data uses.                   *)
(***************************************************************************)
SYMBOL == "BTCUSDT"

\* Database::new on an empty directory; a DataWindow nothing was synced into
StoreInit ==
    /\ db_blocks = <<>>
    /\ db_last = <<>>

BlockKey(symbol, timestamp) == <<symbol, timestamp>>

\* both inserts of the transaction: the block and the "last_{symbol}" pointer
insert_block(blocks, last, symbol, timestamp, data) ==
    [blocks |-> (BlockKey(symbol, timestamp) :> data) @@ blocks,
     last |-> (symbol :> timestamp) @@ last]

get_last_timestamp(last, symbol) ==
    IF symbol \in DOMAIN last THEN last[symbol] ELSE 0

\* Rust's % on i64: the remainder has the sign of the dividend
RustRem(a, b) == IF a >= 0 THEN a % b ELSE 0 - ((0 - a) % b)

\* get_dbtimestamp without the block size: the floor to the minute
get_dbtimestamp_MinuteFloor(timestamp_ms) ==
    timestamp_ms - RustRem(timestamp_ms, MINUTE_MS)
get_dbtimestamp(timestamp_ms) ==
    timestamp_ms - RustRem(timestamp_ms, BLOCK_SIZE * MINUTE_MS)

(***************************************************************************)
(* process_data_chunk.                                                     *)
(***************************************************************************)
Ok == [kind |-> "ok"]

\* the i of `for i in 1..data.len()` whose time_diff is not 60_000
BadPairs(data) ==
    { i \in 1 .. RunLen(data) - 1 :
        RunTime(data, i) - RunTime(data, i - 1) # MINUTE_MS }

\* the Err of timeframe.rs:224-230, by what the message names
ConsistencyError(symbol, data, i) ==
    [kind |-> "consistency", symbol |-> symbol,
     prev_time |-> RunTime(data, i - 1), next_time |-> RunTime(data, i),
     time_diff |-> RunTime(data, i) - RunTime(data, i - 1)]

\* process_data_chunk that writes the block before it checks the batch
process_data_chunk_InsertFirst(symbol, data, blocks, last, recent) ==
    IF RunLen(data) < FULL_BATCH_LEN
    THEN [result |-> Ok, blocks |-> blocks, last |-> last, recent |-> data]
    ELSE LET ins == insert_block(blocks, last, symbol, RunTime(data, 0), data)
         IN  IF BadPairs(data) # {}
             THEN [result |-> ConsistencyError(symbol, data, MinOf(BadPairs(data))),
                   blocks |-> ins.blocks, last |-> ins.last, recent |-> recent]
             ELSE [result |-> Ok, blocks |-> ins.blocks, last |-> ins.last,
                   recent |-> recent]

\* process_data_chunk whose length test is `data.len() <= 1000`
process_data_chunk_FullToRecent(symbol, data, blocks, last, recent) ==
    IF RunLen(data) <= FULL_BATCH_LEN
    THEN [result |-> Ok, blocks |-> blocks, last |-> last, recent |-> data]
    ELSE [result |-> Ok, blocks |-> blocks, last |-> last, recent |-> recent]

\* the result and the store and recent buffer it leaves
process_data_chunk(symbol, data, blocks, last, recent) ==
    IF RunLen(data) < FULL_BATCH_LEN
    THEN [result |-> Ok, blocks |-> blocks, last |-> last, recent |-> data]
    ELSE IF BadPairs(data) # {}
         THEN [result |-> ConsistencyError(symbol, data, MinOf(BadPairs(data))),
               blocks |-> blocks, last |-> last, recent |-> recent]
         ELSE LET ins == insert_block(blocks, last, symbol, RunTime(data, 0), data)
              IN  [result |-> Ok, blocks |-> ins.blocks, last |-> ins.last,
                   recent |-> recent]

(***************************************************************************)
(* The remote kline source, as fetch_klines sees it: an error, or at most  *)
(* `limit` candles whose first is not before startTime.  What it returns   *)
(* is otherwise its own choice: a full or a short batch, contiguous or     *)
(* with one pair of candles 120000 ms apart.                               *)
\* db.rs:32-49: the transaction of insert_block commits, or aborts with Err
\* and leaves the store as it was
insert_block_result(blocks, last, symbol, timestamp, data, storage) ==
    IF storage = "ok"
    THEN LET ins == insert_block(blocks, last, symbol, timestamp, data)
         IN  [result |-> Ok, blocks |-> ins.blocks, last |-> ins.last]
    ELSE [result |-> [kind |-> "storage"], blocks |-> blocks, last |-> last]

\* process_data_chunk reaches line 233 and calls insert_block
InsertAttempted(data) ==
    RunLen(data) >= FULL_BATCH_LEN /\ BadPairs(data) = {}

\* process_data_chunk against a store whose transaction may fail.
\* timeframe.rs:233-234: `db.insert_block(..);` is a statement, its Result is
\* dropped, and Ok(()) follows whatever it was.
process_data_chunk_storage(symbol, data, blocks, last, recent, storage) ==
    IF storage = "ok" \/ ~InsertAttempted(data)
    THEN process_data_chunk(symbol, data, blocks, last, recent)
    ELSE LET ins == insert_block_result(blocks, last, symbol, RunTime(data, 0),
                                        data, storage)
         IN  [result |-> Ok, blocks |-> ins.blocks, last |-> ins.last,
              recent |-> recent]

(***************************************************************************)
\* len candles from `first`, a minute skipped after the gapAt-th (0: none)
Batch(first, len, gapAt) ==
    IF len = 0 THEN EmptyRun ELSE [first |-> first, len |-> len, gapAt |-> gapAt]

BatchLens == {0, 2, BLOCK_SIZE \div 2, FETCH_LIMIT - 1, FETCH_LIMIT}

\* the source's first candle for the symbol may be a minute into a block
FetchOffsets(startTime) ==
    IF startTime = get_dbtimestamp(startTime) THEN {0, MINUTE_MS} ELSE {0}

fetch_klines(startTime) ==
    { Batch(startTime, len, 0) : len \in BatchLens }
    \cup { Batch(startTime + off, FETCH_LIMIT, 0) : off \in FetchOffsets(startTime) }
    \cup UNION { { Batch(startTime, len, gapAt) : gapAt \in {1, len - 1} } :
                    len \in {2, FETCH_LIMIT} }

\* what a source that holds every minute before `until` returns for startTime
CompleteBatch(startTime, until) ==
    LET have == (until - startTime) \div MINUTE_MS
    IN  Batch(startTime, IF have < FETCH_LIMIT THEN have ELSE FETCH_LIMIT, 0)

(***************************************************************************)
(* sync_data.                                                              *)
(***************************************************************************)
\* an unaligned start inside a block, as `now - 15 days` is
HalfBlock == (BLOCK_SIZE \div 2) * MINUTE_MS

\* start_time lies in the first block used, end_time in a later one
StartTimes == { SYNC_STEP_MS + off : off \in {0, HalfBlock} }
EndTimes == { b * SYNC_STEP_MS + off : b \in 2 .. MaxBlock, off \in {0, HalfBlock} }
               \cup { (MaxBlock + 1) * SYNC_STEP_MS }

\* start_time on any block boundary up to a block past the last one used,
\* or inside the first block; end_time right after the first block or two
\* blocks past the last
LateStartTimes ==
    { b * SYNC_STEP_MS : b \in 1 .. MaxBlock + 1 } \cup { SYNC_STEP_MS + HalfBlock }
LateEndTimes == { 2 * SYNC_STEP_MS, (MaxBlock + 2) * SYNC_STEP_MS }

NoSync == [kind |-> "none"]

\* no insert_block running, an empty tree, nothing read
IdleTx == [pc |-> "idle", symbol |-> <<>>, timestamp |-> 0, data |-> <<>>,
           writes |-> <<>>]
NoRead == [op |-> "none"]

TreeInit ==
    /\ tree = <<>>
    /\ tx = IdleTx
    /\ hist = [blocks |-> <<>>, last |-> <<>>]
    /\ nInserts = 0
    /\ read = NoRead

None == [some |-> FALSE]
Some(v) == [some |-> TRUE, value |-> v]

\* interactivegui.rs:37-49: the DataWindow before the first get_data_window
ViewInit ==
    /\ dw_bars = <<>>
    /\ visible_range = <<0, 0>>
    /\ price = <<0, 0>>
    /\ min_indexes = None
    /\ max_indexes = None
    /\ cached_visible_range = None
    /\ pixel_offset = 0
    /\ view_pc = "running"
    /\ view_result = NoSync
    /\ lastReads = <<>>
    /\ pricedRange = <<0, 0>>

\* timeframe.rs:18: update_loop at its call, `timer` just set
LoopInit ==
    /\ loop_pc = "running"
    /\ loop_now = 0
    /\ timer = 0
    /\ loop_result = NoSync
    /\ fetch_failures = 0

\* no get_dbtimestamp call chain under way
NoDbts == [pc |-> "none", t |-> 0, once |-> 0, twice |-> 0]

\* no get_data_window under way, none made yet
NoRebuildRun ==
    [pc |-> "idle", have |-> {}, n |-> 0, block |-> 0, trims |-> <<>>,
     result |-> "none", carried |-> 0]

\* no key under a prefix
NoRecords == [t \in {} |-> 0]

\* an empty store: no candle of the symbol, nothing aggregated, no version
\* key (db.rs:124-130 reads an absent version as 0)
NoAggregation ==
    [src |-> NoRecords, last_src |-> 0, aggr |-> NoRecords, last_aggr |-> 0,
     first_aggr |-> 0, version |-> 0, fresh |-> FALSE, wrote |-> {},
     called |-> FALSE, idle |-> FALSE]

MoreInit ==
    /\ rb = NoRebuildRun
    /\ ag = NoAggregation

\* interactivegui.rs:48: cached_max_volume: None; :63: status_messages: Vec::new()
ExtraInit ==
    /\ status_messages = <<>>
    /\ pending = 0
    /\ dbts = NoDbts
    /\ cached_max_volume = None
    /\ max_volume = None
    /\ rsi_calculator = None
    /\ rsi_out = None
    /\ MoreInit

\* the state machines that are not running
AuxInit == TreeInit /\ ViewInit /\ LoopInit /\ ExtraInit

SyncIdleInit ==
    /\ sync_pc = "idle"
    /\ start_time = 0
    /\ end_time = 0
    /\ last_timestamp = 0
    /\ current_time = 0
    /\ sync_result = NoSync
    /\ requests = <<>>
    /\ complete = TRUE
    /\ lastBatch = EmptyRun
    /\ lastOutcome = NoSync
    /\ lastInsert = "none"
    /\ fetched = {}
    /\ repeatOfPersisted = FALSE
    /\ slept = <<>>

Init ==
    /\ StoreInit
    /\ SyncIdleInit
    /\ AuxInit
    /\ recent_data = EmptyRun
    /\ timeframe_remainder = <<>>
    /\ bars = <<>>
    /\ timeframe_minutes = 1
    /\ flushed = FALSE
    /\ fed = <<>>
    /\ lastCall = "none"
    /\ lastRemainder = <<>>
    /\ lastKlines = <<>>
    /\ lastResult = <<>>

\* the first current_time, with `+ 60_000` in place of `+ 60_000_000`
FirstMissing_PlusMinute(last, start) ==
    IF last = 0 THEN get_dbtimestamp(start) ELSE last + MINUTE_MS

\* the first current_time, without the floor to the block start
FirstMissing_NoFloor(last, start) ==
    IF last = 0 THEN start ELSE last + SYNC_STEP_MS

\* timeframe.rs:104-110: the first current_time
FirstMissing(last, start) ==
    IF last = 0 THEN get_dbtimestamp(start) ELSE last + SYNC_STEP_MS

\* every block-aligned start of [start, end) has a stored block
AllPersisted(blocks, symbol, start, end) ==
    \A b \in 0 .. (end \div SYNC_STEP_MS) :
        (get_dbtimestamp(start) <= b * SYNC_STEP_MS /\ b * SYNC_STEP_MS < end)
            => BlockKey(symbol, b * SYNC_STEP_MS) \in DOMAIN blocks

SyncEnded(result) ==
    /\ sync_pc' = "idle"
    /\ sync_result' = result

\* timeframe.rs:101-110: entry of sync_data
SyncCall(starts, ends) ==
    /\ sync_pc = "idle"
    /\ \E st \in starts, et \in ends :
        /\ st < et
        /\ start_time' = st
        /\ end_time' = et
        /\ last_timestamp' = get_last_timestamp(db_last, SYMBOL)
        /\ current_time' = FirstMissing(get_last_timestamp(db_last, SYMBOL), st)
        \* start_time, end_time and sync_result are still those of the call before
        /\ repeatOfPersisted' =
               /\ sync_result = Ok
               /\ start_time = st
               /\ end_time = et
               /\ AllPersisted(db_blocks, SYMBOL, st, et)
    /\ sync_pc' = "loop"
    /\ sync_result' = NoSync
    /\ requests' = <<>>
    /\ slept' = <<>>
    /\ complete' = TRUE
    /\ lastBatch' = EmptyRun
    /\ lastOutcome' = NoSync
    /\ lastInsert' = "none"
    /\ fetched' = {}
    /\ UNCHANGED <<dbVars, recent_data, convVars, auxVars>>

\* timeframe.rs:93-110: sync_data is called and sets current_time
SyncStart == SyncCall(StartTimes, EndTimes)

\* the same call made when `now - 15 days` has moved past the stored blocks
SyncStartLate == SyncCall(LateStartTimes, LateEndTimes)

\* timeframe.rs:111-126: one turn of the loop whose fetch succeeds, the
\* store answering insert_block by `storage`
SyncTurn(storage) ==
    /\ sync_pc = "loop"
    /\ current_time < end_time
    /\ \E klines \in fetch_klines(current_time) :
        LET r == process_data_chunk_storage(SYMBOL, klines, db_blocks, db_last,
                                            recent_data, storage)
        IN  /\ storage # "ok" => InsertAttempted(klines)
            /\ requests' = Append(requests, current_time)
            /\ slept' = Append(slept, current_time # start_time)
            /\ fetched' = fetched \cup {klines}
            /\ lastInsert' = IF ~InsertAttempted(klines) THEN "none"
                             ELSE IF storage = "ok" THEN "ok" ELSE "failed"
            /\ complete' = (complete /\ klines = CompleteBatch(current_time, end_time))
            /\ lastBatch' = klines
            /\ lastOutcome' = r.result
            /\ db_blocks' = r.blocks
            /\ db_last' = r.last
            /\ recent_data' = r.recent
            /\ IF r.result.kind = "ok"
               THEN /\ current_time' = current_time + SYNC_STEP_MS
                    /\ UNCHANGED <<sync_pc, sync_result>>
               ELSE /\ SyncEnded(r.result)
                    /\ UNCHANGED current_time
    /\ UNCHANGED <<start_time, end_time, last_timestamp, repeatOfPersisted, convVars, auxVars>>

SyncFetch == SyncTurn("ok")

\* the same turn when the transaction of insert_block aborts
SyncFetchStorageFails == SyncTurn("fail")

\* a loop that logs the Err of fetch_klines and goes on to the next block
SyncFetchFails_GoesOn ==
    /\ sync_pc = "loop"
    /\ current_time < end_time
    /\ requests' = Append(requests, current_time)
    /\ slept' = Append(slept, current_time # start_time)
    /\ lastBatch' = EmptyRun
    /\ lastOutcome' = [kind |-> "fetch"]
    /\ lastInsert' = "none"
    /\ current_time' = current_time + SYNC_STEP_MS
    /\ complete' = FALSE
    /\ UNCHANGED <<sync_pc, sync_result, start_time, end_time, last_timestamp,
                   repeatOfPersisted, fetched, dbVars, recent_data, convVars, auxVars>>

\* timeframe.rs:115-122: fetch_klines returns Err, `?` returns it
SyncFetchFails ==
    /\ sync_pc = "loop"
    /\ current_time < end_time
    /\ requests' = Append(requests, current_time)
    /\ slept' = Append(slept, current_time # start_time)
    /\ lastBatch' = EmptyRun
    /\ lastOutcome' = [kind |-> "fetch"]
    /\ lastInsert' = "none"
    /\ SyncEnded([kind |-> "fetch"])
    /\ complete' = FALSE
    /\ UNCHANGED <<current_time, start_time, end_time, last_timestamp,
                   repeatOfPersisted, fetched, dbVars, recent_data, convVars, auxVars>>

\* timeframe.rs:111,128: the loop condition fails, Ok(())
SyncReturn ==
    /\ sync_pc = "loop"
    /\ current_time >= end_time
    /\ SyncEnded(Ok)
    /\ UNCHANGED <<requests, slept, complete, lastBatch, lastOutcome, lastInsert, fetched, current_time,
                   start_time, end_time, last_timestamp, repeatOfPersisted,
                   dbVars, recent_data, convVars, auxVars>>

Next == SyncStart \/ SyncFetch \/ SyncFetchFails \/ SyncReturn

\* sync_data called with any start_time, before or after the stored blocks
NextPause == SyncStartLate \/ SyncFetch \/ SyncFetchFails \/ SyncReturn

SpecPause == Init /\ [][NextPause]_vars

Spec == Init /\ [][Next]_vars

\* sync_data runs on a thread that is scheduled: a step that can be taken is
\* taken in the end
SpecSyncLive == Spec /\ WF_vars(Next)

\* sync_data against a store whose transactions may fail
NextFault == Next \/ SyncFetchStorageFails

SpecFault == Init /\ [][NextFault]_vars

(***************************************************************************)
(* SpecConv: the convert_to_timeframe calls of get_data_window.  A window  *)
(* converts the loaded blocks one after another with dolastbar = false,    *)
(* then the recent buffer with dolastbar = true; the next window starts    *)
(* with a fresh `bars` and whatever remainder the last one left.           *)
(***************************************************************************)
Timeframes == (1 .. MaxTf) \cup {ScenarioTf}

\* open, high, low, close (price * 10^PRICE_MULTIPLIER) and volume of a candle
Shapes == { <<10000, 12000, 9000, 11000, 3>>, <<11000, 15000, 6000, 7000, 5>> }
ShapeSeqs == UNION { [1 .. n -> Shapes] : n \in 0 .. MaxChunk }

ConvT0 == SYNC_STEP_MS

\* the candle of the i-th minute (from 1) of the window's input, of shape sh
CandleAt(i, sh) ==
    KLine(ConvT0 + (i - 1) * MINUTE_MS, sh[1], sh[2], sh[3], sh[4], sh[5])

\* a short input: the next Len(shs) minutes after the `done` already passed
ShortChunk(done, shs) == [k \in 1 .. Len(shs) |-> CandleAt(done + k, shs[k])]

\* a stored block: BLOCK_SIZE contiguous minutes, the two shapes in turn by threes
FullBlock(done) ==
    [k \in 1 .. BLOCK_SIZE |->
        CandleAt(done + k, IF (k \div 3) % 2 = 0
                           THEN <<10000, 12000, 9000, 11000, 3>>
                           ELSE <<11000, 15000, 6000, 7000, 5>>)]

ConvInputs ==
    { ShortChunk(Len(fed), shs) :
        shs \in { q \in ShapeSeqs : (Len(fed) % BLOCK_SIZE) + Len(q) <= MaxFed } }
    \cup (IF fed = <<>> THEN { FullBlock(0) } ELSE {})

InitConv ==
    /\ timeframe_remainder = <<>>
    /\ recent_data = EmptyRun
    /\ bars = <<>>
    /\ timeframe_minutes \in Timeframes
    /\ flushed = FALSE
    /\ fed = <<>>
    /\ lastCall = "none"
    /\ lastRemainder = <<>>
    /\ lastKlines = <<>>
    /\ lastResult = <<>>
    /\ StoreInit
    /\ SyncIdleInit
    /\ AuxInit

Convert(klines, dolastbar) ==
    LET r == convert_to_timeframe(klines, timeframe_minutes, dolastbar,
                                  timeframe_remainder)
    IN  /\ timeframe_remainder' = r.remainder
        /\ bars' = bars \o r.result
        /\ fed' = fed \o klines
        /\ lastCall' = IF dolastbar THEN "tail" ELSE "block"
        /\ lastRemainder' = timeframe_remainder
        /\ lastKlines' = klines
        /\ lastResult' = r.result
        /\ flushed' = dolastbar
        /\ UNCHANGED <<timeframe_minutes, recent_data, dbVars, syncVars, auxVars>>

\* timeframe.rs:66,73  convert_to_timeframe(block, tf, false, dw); bars.extend
ConvertBlock == /\ ~flushed
                /\ \E klines \in ConvInputs : Convert(klines, FALSE)

\* timeframe.rs:81  bars.extend(convert_to_timeframe(recent_data, tf, true, dw))
ConvertTail == /\ ~flushed
               /\ \E klines \in ConvInputs : Convert(klines, TRUE)

\* the next get_data_window, after a timeframe switch or not: bars = Vec::new()
NewWindow ==
    /\ flushed
    /\ timeframe_minutes' \in Timeframes
    /\ bars' = <<>>
    /\ fed' = <<>>
    /\ flushed' = FALSE
    /\ lastCall' = "none"
    /\ lastRemainder' = <<>>
    /\ lastKlines' = <<>>
    /\ lastResult' = <<>>
    /\ UNCHANGED <<timeframe_remainder, recent_data, dbVars, syncVars, auxVars>>

NextConv == ConvertBlock \/ ConvertTail \/ NewWindow

SpecConv == InitConv /\ [][NextConv]_vars

(***************************************************************************)
(* Claims about the resampler, checked under SpecConv.                     *)
(***************************************************************************)
lastCombined == lastRemainder \o lastKlines

RECURSIVE SumVolume(_, _, _)
SumVolume(s, from, to) ==
    IF to < from THEN 0 ELSE SumVolume(s, from, to - 1) + s[to].volume

\* the bar that candles from .. to of s make, stated from the candles alone
GroupBar(s, from, to) ==
    [time |-> s[from].open_time,
     open |-> ToPrice(s[from].open),
     high |-> ToPrice(MaxOf({ s[i].high : i \in from .. to })),
     low |-> ToPrice(MinOf({ s[i].low : i \in from .. to })),
     close |-> ToPrice(s[to].close),
     volume |-> SumVolume(s, from, to)]

GroupFrom(k) == (k - 1) * timeframe_minutes + 1
GroupTo(k) ==
    IF k * timeframe_minutes <= Len(lastCombined)
    THEN k * timeframe_minutes ELSE Len(lastCombined)

\* C1: resampling associativity.  However the candles passed so far in a window
\* were split into calls (every call but possibly the last with dolastbar =
\* false, each seeded with the remainder the one before left, empty chunks
\* included), the bars returned, concatenated, and the final remainder are
\* those of one call on the whole sequence from an empty remainder with the
\* last call's dolastbar.
C1_Associativity ==
    lastCall # "none" =>
        LET whole == convert_to_timeframe(fed, timeframe_minutes,
                                          lastCall = "tail", <<>>)
        IN  /\ bars = whole.result
            /\ timeframe_remainder = whole.remainder

\* a second call that started from a non-empty remainder, completed a bar
\* across the split and left a remainder again
C1_Witness ==
    /\ lastCall = "block"
    /\ lastRemainder # <<>>
    /\ lastKlines # <<>>
    /\ fed = lastCombined
    /\ Len(lastResult) >= 1
    /\ timeframe_remainder # <<>>

\* C2: remainder invariant.  After a call with dolastbar = false the stored
\* remainder is shorter than timeframe_minutes; after a call with dolastbar =
\* true it is empty.
C2_RemainderInvariant ==
    /\ Len(lastRemainder) < timeframe_minutes
    /\ lastCall = "block" =>
           /\ 0 <= Len(timeframe_remainder)
           /\ Len(timeframe_remainder) < timeframe_minutes
    /\ lastCall = "tail" => timeframe_remainder = <<>>

\* a call that left the longest remainder there can be, from a non-empty one
C2_Witness ==
    /\ lastCall = "block"
    /\ timeframe_minutes >= 3
    /\ lastRemainder # <<>>
    /\ lastKlines # <<>>
    /\ Len(timeframe_remainder) = timeframe_minutes - 1

\* C3: bar contents.  The k-th bar a call returns is made of the k-th group of
\* the combined input alone: time and open of the group's first candle, the
\* maximum of its highs, the minimum of its lows, the close of its last candle
\* and the sum of its volumes.
C3_BarContents ==
    \A k \in 1 .. Len(lastResult) :
        /\ GroupFrom(k) <= GroupTo(k)
        /\ lastResult[k] = GroupBar(lastCombined, GroupFrom(k), GroupTo(k))

\* a call returned a bar whose high and low are below those of the bar before
C3_Witness ==
    /\ Len(lastResult) >= 2
    /\ timeframe_minutes >= 2
    /\ FLess(lastResult[2].high, lastResult[1].high)
    /\ FLess(lastResult[1].low, lastResult[2].low)
    /\ lastResult[2].volume < lastResult[1].volume

\* C4: emission rule.  A bar is pushed at every timeframe_minutes-th candle of
\* the combined input, and with dolastbar also at its last candle: without
\* dolastbar n candles give floor(n / tf) bars, with dolastbar ceil(n / tf),
\* the last one ending with the last candle, and none when n = 0.
C4_EmissionRule ==
    LET n == Len(lastCombined)
        tf == timeframe_minutes
    IN  /\ lastCall = "block" => Len(lastResult) = n \div tf
        /\ lastCall = "tail" =>
               /\ Len(lastResult) = (n + tf - 1) \div tf
               /\ n = 0 => lastResult = <<>>
               /\ n >= 1 =>
                      /\ lastResult[Len(lastResult)].close = ToPrice(lastCombined[n].close)
                      /\ timeframe_remainder = <<>>
        /\ \A k \in 1 .. Len(lastResult) :
               lastResult[k].time = lastCombined[GroupFrom(k)].open_time

\* a flush that pushed a partial last bar after at least one full bar
C4_Witness ==
    /\ lastCall = "tail"
    /\ Len(lastResult) >= 2
    /\ Len(lastCombined) % timeframe_minutes # 0
    /\ lastRemainder # <<>>

\* C5: without dolastbar and from an empty remainder, n candles give
\* floor(n / tf) bars and leave the last n mod tf candles, in order, as the
\* remainder.
C5_FloorAndSuffix ==
    (lastCall = "block" /\ lastRemainder = <<>>) =>
        LET n == Len(lastKlines)
            tf == timeframe_minutes
        IN  /\ Len(lastResult) = n \div tf
            /\ timeframe_remainder = SubSeq(lastKlines, n - (n % tf) + 1, n)

\* 1000 candles at timeframe 15: 66 bars, 10 candles left
C5_Witness ==
    /\ lastCall = "block"
    /\ lastRemainder = <<>>
    /\ Len(lastKlines) = 1000
    /\ timeframe_minutes = 15
    /\ Len(lastResult) = 66
    /\ Len(timeframe_remainder) = 10

(***************************************************************************)
(* The sled tree behind Database (db.rs), key by key.  A key or a value is *)
(* a byte string, written as the sequence of its bytes (ASCII codes for    *)
(* text).  SpecStore is one writer inside insert_block's transaction and   *)
(* readers calling get_block, get_last_timestamp and get_first_timestamp   *)
(* at any moment.                                                          *)
(***************************************************************************)
\* "_", "last_" and "-" as bytes
Underscore == <<95>>
LastPrefix == <<108, 97, 115, 116, 95>>
MinusSign == <<45>>

\* i64's Display for n >= 0: the decimal digits
RECURSIVE Digits(_)
Digits(n) ==
    IF n < 10 THEN <<48 + n>> ELSE Digits(n \div 10) \o <<48 + (n % 10)>>

\* format!("{}", timestamp)
FormatI64(n) == IF n < 0 THEN MinusSign \o Digits(0 - n) ELSE Digits(n)

IsDigit(b) == 48 <= b /\ b <= 57

RECURSIVE DigitsValue(_)
DigitsValue(str) ==
    IF str = <<>> THEN 0
    ELSE 10 * DigitsValue(SubSeq(str, 1, Len(str) - 1)) + (str[Len(str)] - 48)

\* timestamp_str.parse::<i64>(): an optional sign, then digits and nothing else
ParseI64(str) ==
    LET neg == str # <<>> /\ str[1] = 45
        body == IF str # <<>> /\ str[1] \in {43, 45}
                THEN SubSeq(str, 2, Len(str)) ELSE str
    IN  IF body # <<>> /\ \A i \in 1 .. Len(body) : IsDigit(body[i])
        THEN [ok |-> TRUE,
              value |-> IF neg THEN 0 - DigitsValue(body) ELSE DigitsValue(body)]
        ELSE [ok |-> FALSE, value |-> 0]

\* timestamp.to_be_bytes(), for the timestamps of the model (0 <= n < 2^31)
to_be_bytes(n) ==
    <<0, 0, 0, 0, n \div 16777216, (n \div 65536) % 256, (n \div 256) % 256, n % 256>>

\* i64::from_be_bytes
from_be_bytes(b) ==
    ((b[5] * 256 + b[6]) * 256 + b[7]) * 256 + b[8]

\* the order of sled's keys: bytewise lexicographic
LexLess(a, b) ==
    \E i \in 1 .. Len(b) :
        /\ i <= Len(a) + 1
        /\ \A j \in 1 .. i - 1 : a[j] = b[j]
        /\ (i = Len(a) + 1 \/ a[i] < b[i])

HasPrefix(key, prefix) ==
    /\ Len(key) >= Len(prefix)
    /\ SubSeq(key, 1, Len(prefix)) = prefix

\* key_str.strip_prefix(&prefix), for a key that has it
StripPrefix(key, prefix) == SubSeq(key, Len(prefix) + 1, Len(key))

\* db.rs:31, 55  format!("{}_{}", symbol, timestamp), without the "_"
TreeBlockKey_NoSeparator(symbol, timestamp) == symbol \o FormatI64(timestamp)

\* db.rs:31, 55  format!("{}_{}", symbol, timestamp)
TreeBlockKey(symbol, timestamp) == symbol \o Underscore \o FormatI64(timestamp)

\* db.rs:41, 63  format!("last_{}", symbol)
TreeLastKey(symbol) == LastPrefix \o symbol

\* tx.insert written through to the tree at once, outside any transaction
tx_insert_Direct(t, key, value) ==
    [tree |-> (key :> value) @@ t.tree, writes |-> t.writes]

\* tx.insert inside db.transaction: the write is held by the transaction
tx_insert(t, key, value) ==
    [tree |-> t.tree, writes |-> (key :> value) @@ t.writes]

\* the closure returned Ok(()): the writes become visible in one step
tx_commit(t) == [tree |-> t.writes @@ t.tree, writes |-> <<>>]

\* Abort(e), or the commit failed: the writes are dropped
tx_abort(t) == [tree |-> t.tree, writes |-> <<>>]

\* db.rs:54-60
Database_get_block(t, symbol, timestamp) ==
    IF TreeBlockKey(symbol, timestamp) \in DOMAIN t
    THEN Some(t[TreeBlockKey(symbol, timestamp)])
    ELSE None

\* get_last_timestamp decoding the pointer as little-endian
Database_get_last_timestamp_LittleEndian(t, symbol) ==
    IF TreeLastKey(symbol) \in DOMAIN t
    THEN LET b == t[TreeLastKey(symbol)]
         IN  from_be_bytes(<<b[8], b[7], b[6], b[5], b[4], b[3], b[2], b[1]>>)
    ELSE 0

\* db.rs:62-67
Database_get_last_timestamp(t, symbol) ==
    IF TreeLastKey(symbol) \in DOMAIN t
    THEN from_be_bytes(t[TreeLastKey(symbol)])
    ELSE 0

\* db.rs:69-87: the first key of scan_prefix("{symbol}_"), in key order, whose
\* rest parses as an i64; 0 when there is none
Database_get_first_timestamp(t, symbol) ==
    LET prefix == symbol \o Underscore
        hits == { k \in DOMAIN t :
                    HasPrefix(k, prefix) /\ ParseI64(StripPrefix(k, prefix)).ok }
    IN  IF hits = {} THEN 0
        ELSE LET first == CHOOSE k \in hits : \A o \in hits : o = k \/ LexLess(k, o)
             IN  ParseI64(StripPrefix(first, prefix)).value

\* symbols: "A", its derived "A_aggr" (db.rs:123) and "A1"
SymA == <<65>>
SymAggr == SymA \o <<95, 97, 103, 103, 114>>
SymA1 == <<65, 49>>
Symbols == {SymA, SymAggr, SymA1}

\* the (symbol, block start) pairs insert_block is called with: two blocks of
\* one symbol a block span apart, and blocks of the other symbols
InsertKeys ==
    { <<SymA, SYNC_STEP_MS>>, <<SymA, 2 * SYNC_STEP_MS>>,
      <<SymAggr, SYNC_STEP_MS>>, <<SymA1, SYNC_STEP_MS \div 3>> }

\* the block starts readers ask for
ReadTimes == { k[2] : k \in InsertKeys }

otherVars == <<convVars, recent_data, dbVars, syncVars, viewVars, loopVars, extraVars,
              status_messages>>

\* db.rs:25-32  insert_block(symbol, timestamp, data) enters the transaction;
\* the data of the n-th call is the byte n
InsertBegin ==
    /\ tx.pc = "idle"
    /\ nInserts < MaxInserts
    /\ \E k \in InsertKeys :
        tx' = [pc |-> "block", symbol |-> k[1], timestamp |-> k[2],
               data |-> <<nInserts + 1>>, writes |-> <<>>]
    /\ nInserts' = nInserts + 1
    /\ read' = NoRead
    /\ UNCHANGED <<tree, hist, otherVars>>

\* db.rs:34-37  tx.insert(key, data) returns Ok
InsertBlockEntry ==
    /\ tx.pc = "block"
    /\ LET r == tx_insert([tree |-> tree, writes |-> tx.writes],
                          TreeBlockKey(tx.symbol, tx.timestamp), tx.data)
       IN  /\ tree' = r.tree
           /\ tx' = [tx EXCEPT !.pc = "pointer", !.writes = r.writes]
    /\ read' = NoRead
    /\ UNCHANGED <<hist, nInserts, otherVars>>

\* db.rs:40-46  tx.insert("last_{symbol}", timestamp.to_be_bytes()) returns Ok
InsertPointerEntry ==
    /\ tx.pc = "pointer"
    /\ LET r == tx_insert([tree |-> tree, writes |-> tx.writes],
                          TreeLastKey(tx.symbol), to_be_bytes(tx.timestamp))
       IN  /\ tree' = r.tree
           /\ tx' = [tx EXCEPT !.pc = "commit", !.writes = r.writes]
    /\ read' = NoRead
    /\ UNCHANGED <<hist, nInserts, otherVars>>

\* db.rs:48-51  the closure returns Ok(()), the transaction commits
InsertCommit ==
    /\ tx.pc = "commit"
    /\ tree' = tx_commit([tree |-> tree, writes |-> tx.writes]).tree
    /\ hist' = [blocks |-> (<<tx.symbol, tx.timestamp>> :> tx.data) @@ hist.blocks,
                last |-> (tx.symbol :> tx.timestamp) @@ hist.last]
    /\ tx' = IdleTx
    /\ read' = NoRead
    /\ UNCHANGED <<nInserts, otherVars>>

\* db.rs:36, 45, 49  a tx.insert or the commit fails: Abort(e), Err returned
InsertAbort ==
    /\ tx.pc \in {"block", "pointer", "commit"}
    /\ tree' = tx_abort([tree |-> tree, writes |-> tx.writes]).tree
    /\ tx' = IdleTx
    /\ read' = NoRead
    /\ UNCHANGED <<hist, nInserts, otherVars>>

\* a reader, at any moment: get_block
ReadBlock ==
    /\ \E sym \in Symbols, ts \in ReadTimes :
        read' = [op |-> "get_block", symbol |-> sym, timestamp |-> ts,
                 result |-> Database_get_block(tree, sym, ts)]
    /\ UNCHANGED <<tree, tx, hist, nInserts, otherVars>>

\* a reader, at any moment: get_last_timestamp
ReadLast ==
    /\ \E sym \in Symbols :
        read' = [op |-> "get_last_timestamp", symbol |-> sym, timestamp |-> 0,
                 result |-> Database_get_last_timestamp(tree, sym)]
    /\ UNCHANGED <<tree, tx, hist, nInserts, otherVars>>

\* a reader, at any moment: get_first_timestamp
ReadFirst ==
    /\ \E sym \in Symbols :
        read' = [op |-> "get_first_timestamp", symbol |-> sym, timestamp |-> 0,
                 result |-> Database_get_first_timestamp(tree, sym)]
    /\ UNCHANGED <<tree, tx, hist, nInserts, otherVars>>

InitStore ==
    /\ TreeInit
    /\ ViewInit
    /\ LoopInit
    /\ ExtraInit
    /\ StoreInit
    /\ SyncIdleInit
    /\ recent_data = EmptyRun
    /\ timeframe_remainder = <<>>
    /\ bars = <<>>
    /\ timeframe_minutes = 1
    /\ flushed = FALSE
    /\ fed = <<>>
    /\ lastCall = "none"
    /\ lastRemainder = <<>>
    /\ lastKlines = <<>>
    /\ lastResult = <<>>

NextStore ==
    \/ InsertBegin \/ InsertBlockEntry \/ InsertPointerEntry
    \/ InsertCommit \/ InsertAbort
    \/ ReadBlock \/ ReadLast \/ ReadFirst

SpecStore == InitStore /\ [][NextStore]_vars

(***************************************************************************)
(* The viewport: DataWindow.bars, visible_range and the price extrema,     *)
(* through rebuilds (get_data_window), zoom and drag, frame by frame       *)
(* (gui.rs update).  A bar is its low and high, in price units; which bars *)
(* a rebuild produces is the resampler's matter (SpecConv), so here a      *)
(* rebuild may produce any short bar vector.  Indexes count from 0 as in   *)
(* the source; bars[i] of the source is dw_bars[i + 1].                    *)
(***************************************************************************)
\* the i-th bar of a series around the price level `base`: a bar with a
\* range, then a flat bar, and so on
BarAt(base, i) ==
    IF i % 2 = 1 THEN [low |-> base + 1, high |-> base + 2, volume |-> 10 - i]
    ELSE [low |-> base + 3, high |-> base + 3, volume |-> 10 - i]

\* the bar vectors a rebuild may produce: up to MaxBars bars, at one of two
\* price levels
ViewBarSeqs ==
    { [i \in 1 .. n |-> BarAt(base, i)] : n \in 0 .. MaxBars, base \in {0, 10} }

\* bar counts around the window of 200 bars
LongLens == {WINDOW_SIZE - 1, WINDOW_SIZE, WINDOW_SIZE + 1, WINDOW_SIZE + 50}

\* the bar vectors of a long history: n bars of the same low, high and volume
LongBarSeqs ==
    { [i \in 1 .. n |-> [low |-> base + 1, high |-> base + 2, volume |-> 1]] :
        n \in LongLens, base \in {0, 10} }

\* a stored block as the reader finds it: absent, or bytes that the xz stream
\* check and the bincode decoder accept or not
Absent == [present |-> FALSE, xz_ok |-> TRUE, bincode_ok |-> TRUE]
Blob(xz_ok, bincode_ok) == [present |-> TRUE, xz_ok |-> xz_ok, bincode_ok |-> bincode_ok]

\* what a rebuild finds under the block starts of its range: a gap after a
\* block, nothing at all, bytes that fail the xz check after a good block,
\* bytes that fail to deserialize
RebuildReads ==
    { <<Blob(TRUE, TRUE), Absent>>, <<Absent, Absent>>,
      <<Blob(TRUE, TRUE), Blob(FALSE, TRUE)>>, <<Absent, Blob(TRUE, FALSE)>> }

\* compress.rs:67-72: decompress_lzma2(data)? then decode_from_slice(..)?
decompress_klines(blob) ==
    IF ~blob.xz_ok THEN [kind |-> "corrupt", stage |-> "decompress"]
    ELSE IF ~blob.bincode_ok THEN [kind |-> "corrupt", stage |-> "deserialize"]
    ELSE Ok

\* get_block as get_data_window uses it (Result<Option<Vec<KLine>>, _>):
\* None when absent, the decoding error when the bytes do not decode
get_block_decoded(entry) ==
    IF ~entry.present THEN [kind |-> "none"]
    ELSE IF decompress_klines(entry).kind = "ok" THEN [kind |-> "some"]
    ELSE decompress_klines(entry)

\* the block loop with `if let Ok(Some(block))`: an Err is skipped like None
BlockLoop_SkipErr(entries) == Ok

\* datawindow.rs:45-74: `db.get_block(symbol, current_block_start)?` for each
\* block start of the range; the first Err ends get_data_window
BlockLoop(entries) ==
    LET bad == { i \in 1 .. Len(entries) : get_block_decoded(entries[i]).kind = "corrupt" }
    IN  IF bad = {} THEN Ok ELSE get_block_decoded(entries[MinOf(bad)])

\* the orders a sort by `key` can leave the indexes 0 .. n-1 in (sort_unstable_by:
\* equal keys in any order)
SortedOrders(n, key) ==
    { p \in [1 .. n -> 0 .. n - 1] :
        /\ \A i, j \in 1 .. n : i # j => p[i] # p[j]
        /\ \A i \in 1 .. n - 1 : key[p[i] + 1] <= key[p[i + 1] + 1] }

\* the orders looked at for a bar vector: every order the sort can leave for
\* a short one; for a long one the indexes as they were and reversed, where
\* the sort can leave them so
IndexOrders(n, key) ==
    IF n <= MaxBars THEN SortedOrders(n, key)
    ELSE { p \in { [i \in 1 .. n |-> i - 1], [i \in 1 .. n |-> n - i] } :
            \A i \in 1 .. n - 1 : key[p[i] + 1] <= key[p[i + 1] + 1] }

\* the first index of the order that lies in start .. end-1, if any
FirstInRange(order, start, end) ==
    LET hits == { k \in 1 .. Len(order) : order[k] >= start /\ order[k] < end }
    IN  IF hits = {} THEN None ELSE Some(order[MinOf(hits)])

\* the DataWindow fields the price query reads and writes
ViewOf(b, vr, pr, mins, maxs, cached) ==
    [bars |-> b, visible_range |-> vr, price |-> pr, min_indexes |-> mins,
     max_indexes |-> maxs, cached_visible_range |-> cached]

\* a price query that keeps only the visible bars
update_price_range_extrema_VisibleOnly(dw) ==
    [dw EXCEPT !.bars = SubSeq(dw.bars, MaxOf({dw.visible_range[1], 0}) + 1,
                               MinOf({dw.visible_range[2], Len(dw.bars)})),
               !.cached_visible_range = Some(dw.visible_range)]

\* datawindow.rs:103-167
update_price_range_extrema(dw) ==
    IF dw.cached_visible_range = Some(dw.visible_range) THEN dw
    ELSE
      LET start == MaxOf({dw.visible_range[1], 0})
          end == MinOf({dw.visible_range[2], Len(dw.bars)})
          byMin == IF dw.min_indexes.some
                   THEN FirstInRange(dw.min_indexes.value, start, end) ELSE None
          byMax == IF dw.max_indexes.some
                   THEN FirstInRange(dw.max_indexes.value, start, end) ELSE None
          slice == start + 1 .. end
          min == IF byMin.some /\ byMax.some
                 THEN dw.bars[byMin.value + 1].low
                 ELSE MinOf({ dw.bars[i].low : i \in slice })
          max == IF byMin.some /\ byMax.some
                 THEN dw.bars[byMax.value + 1].high
                 ELSE MaxOf({ dw.bars[i].high : i \in slice })
      IN  IF start >= end
          THEN [dw EXCEPT !.price = <<0, 1>>,
                          !.cached_visible_range = Some(dw.visible_range)]
          ELSE [dw EXCEPT !.price = IF min >= max THEN <<min, min + 1>> ELSE <<min, max>>,
                          !.cached_visible_range = Some(dw.visible_range)]

\* interactivegui.rs:80-105
zoom(vr, len, zoomIn) ==
    IF len = 0 \/ vr[2] <= vr[1] THEN vr
    ELSE
      LET range == vr[2] - vr[1]
          z == MaxOf({range \div ZOOM_DIVISOR, 1})
          s1 == IF zoomIn THEN MinOf({vr[1] + z, vr[2] - 2}) ELSE MaxOf({vr[1] - z, 0})
          e1 == IF zoomIn THEN MinOf({MaxOf({vr[2] - z, s1 + 2}), len})
                ELSE MinOf({vr[2] + z, len})
          s2 == MaxOf({s1, 0})
          e2 == MaxOf({MinOf({e1, len}), s2 + 2})
      IN  <<s2, e2>>

\* f32::round of a / b for b > 0: halves away from zero
RoundDiv(a, b) ==
    IF a >= 0 THEN (2 * a + b) \div (2 * b) ELSE 0 - ((b - 2 * a) \div (2 * b))

\* gui.rs:82-112: the drag handler, for a chart RectWidth pixels wide
drag(vr, offset, len, delta_x) ==
    LET visible_count == vr[2] - vr[1]
        moved == offset + delta_x
        shift == IF visible_count = 0 THEN 0
                 ELSE RoundDiv(moved * visible_count, RectWidth)
        new_start == MinOf({MaxOf({vr[1] - shift, 0}), len - visible_count})
    IN  IF vr[2] >= len /\ delta_x < 0
        THEN [visible_range |-> vr, pixel_offset |-> offset, panic |-> FALSE]
        ELSE IF shift = 0
        THEN [visible_range |-> vr, pixel_offset |-> moved, panic |-> FALSE]
        ELSE IF len - visible_count < 0
        \* i64::clamp(0, max) with max < 0 panics
        THEN [visible_range |-> vr, pixel_offset |-> moved, panic |-> TRUE]
        ELSE [visible_range |-> <<new_start, MinOf({new_start + visible_count, len})>>,
              pixel_offset |-> moved - shift * (RectWidth \div visible_count),
              panic |-> FALSE]

\* the DataWindow as it is now
ViewNow ==
    ViewOf(dw_bars, visible_range, price, min_indexes, max_indexes,
           cached_visible_range)

\* the fields of dw, except visible_range, become the DataWindow's
SetView(dw) ==
    /\ dw_bars' = dw.bars
    /\ price' = dw.price
    /\ min_indexes' = dw.min_indexes
    /\ max_indexes' = dw.max_indexes
    /\ cached_visible_range' = dw.cached_visible_range

\* get_data_window that clears the DataWindow before it loads
get_data_window_AssignFirst(dw, syncResult, entries, newBars, mins, maxs) ==
    LET cleared == ViewOf(<<>>, <<0, 0>>, dw.price, None, None, dw.cached_visible_range)
        len == Len(newBars)
        range == <<MaxOf({len - MinOf({WINDOW_SIZE, len}), 0}), len>>
    IN  IF syncResult.kind # "ok" THEN [result |-> syncResult, dw |-> cleared]
        ELSE IF BlockLoop(entries).kind # "ok"
        THEN [result |-> BlockLoop(entries), dw |-> cleared]
        ELSE [result |-> Ok,
              dw |-> update_price_range_extrema(
                         ViewOf(newBars, range, dw.price, Some(mins), Some(maxs),
                                dw.cached_visible_range))]

\* get_data_window that leaves build_extrema_indexes out
get_data_window_KeepIndexes(dw, syncResult, entries, newBars, mins, maxs) ==
    IF syncResult.kind # "ok" THEN [result |-> syncResult, dw |-> dw]
    ELSE IF BlockLoop(entries).kind # "ok"
    THEN [result |-> BlockLoop(entries), dw |-> dw]
    ELSE
      LET len == Len(newBars)
          range == <<MaxOf({len - MinOf({WINDOW_SIZE, len}), 0}), len>>
      IN  [result |-> Ok,
           dw |-> update_price_range_extrema(
                      ViewOf(newBars, range, dw.price, dw.min_indexes, dw.max_indexes,
                             dw.cached_visible_range))]

\* get_data_window that shows every bar it built
get_data_window_WholeRange(dw, syncResult, entries, newBars, mins, maxs) ==
    IF syncResult.kind # "ok" THEN [result |-> syncResult, dw |-> dw]
    ELSE IF BlockLoop(entries).kind # "ok"
    THEN [result |-> BlockLoop(entries), dw |-> dw]
    ELSE [result |-> Ok,
          dw |-> update_price_range_extrema(
                     ViewOf(newBars, <<0, Len(newBars)>>, dw.price, Some(mins),
                            Some(maxs), dw.cached_visible_range))]

\* datawindow.rs:27-101  get_data_window: sync_data(..)?, the block loop,
\* then bars, visible_range, build_extrema_indexes (mins, maxs: the orders the
\* sorts left) and update_price_range_extrema.  An Err leaves dw as it was.
get_data_window(dw, syncResult, entries, newBars, mins, maxs) ==
    IF syncResult.kind # "ok" THEN [result |-> syncResult, dw |-> dw]
    ELSE IF BlockLoop(entries).kind # "ok"
    THEN [result |-> BlockLoop(entries), dw |-> dw]
    ELSE
      LET len == Len(newBars)
          window_size == MinOf({WINDOW_SIZE, len})
          range == <<MaxOf({len - window_size, 0}), len>>
      IN  [result |-> Ok,
           dw |-> update_price_range_extrema(
                      ViewOf(newBars, range, dw.price, Some(mins), Some(maxs),
                             dw.cached_visible_range))]

otherThanView == <<convVars, recent_data, dbVars, syncVars, storeVars, loopVars, extraVars>>

\* interactivegui.rs:72-78  message_add: push, and drop the oldest message
\* when the list is longer than STATUS_MESSAGE_MAX_COUNT
message_add(messages, new_message) ==
    LET pushed == Append(messages, new_message)
    IN  IF Len(pushed) > STATUS_MESSAGE_MAX_COUNT THEN Tail(pushed) ELSE pushed

\* interactivegui.rs:107-126  update_data_window: the frame's
\* get_data_window returned r; the message says which way it went
RebuildDone(r, entries) ==
    /\ status_messages' =
           message_add(status_messages,
                       IF r.result.kind = "ok" THEN "updated" ELSE "error")
    /\ view_result' = r.result
    /\ lastReads' = entries
    /\ visible_range' = r.dw.visible_range
    /\ pricedRange' = r.dw.visible_range
    /\ SetView(update_price_range_extrema(r.dw))

\* no get_data_window in this frame
NoRebuild ==
    /\ view_result' = NoSync
    /\ lastReads' = <<>>
    /\ UNCHANGED status_messages

\* gui.rs:21-26, 64: a timeframe button; update_data_window, then the chart.
\* barSeqs: the bar vectors the rebuild may produce
RebuildFrame(barSeqs) ==
    /\ view_pc = "running"
    /\ Len(status_messages) < MaxClicks
    /\ \/ RebuildDone(get_data_window(ViewNow, [kind |-> "fetch"], <<>>, <<>>, <<>>, <<>>),
                      <<>>)
       \/ \E entries \in RebuildReads :
            IF BlockLoop(entries).kind # "ok"
            THEN RebuildDone(get_data_window(ViewNow, Ok, entries, <<>>, <<>>, <<>>),
                             entries)
            ELSE \E newBars \in barSeqs :
                 \E mins \in IndexOrders(Len(newBars),
                                 [i \in 1 .. Len(newBars) |-> newBars[i].low]),
                    maxs \in IndexOrders(Len(newBars),
                                 [i \in 1 .. Len(newBars) |-> 0 - newBars[i].high]) :
                   RebuildDone(get_data_window(ViewNow, Ok, entries, newBars, mins, maxs),
                               entries)
    /\ UNCHANGED <<pixel_offset, view_pc, otherThanView>>

FrameRebuild == RebuildFrame(ViewBarSeqs)

\* the same frame over a history of any length
FrameRebuildLong == RebuildFrame(ViewBarSeqs \cup LongBarSeqs)

\* gui.rs:27-32, 64: the "+" or "-" button; zoom, then the chart
FrameZoomButton ==
    /\ view_pc = "running"
    /\ \E zoomIn \in BOOLEAN :
        LET range == zoom(visible_range, Len(dw_bars), zoomIn)
        IN  /\ visible_range' = range
            /\ pricedRange' = range
            /\ SetView(update_price_range_extrema(
                           [ViewNow EXCEPT !.visible_range = range]))
    /\ NoRebuild
    /\ UNCHANGED <<pixel_offset, view_pc, otherThanView>>

\* gui.rs:64, 82-112: the chart, then a drag of delta_x pixels
FrameDrag ==
    /\ view_pc = "running"
    /\ \E delta_x \in {0 - 20, 20} :
        \* the pointer stays on the chart: the offset an empty chart gathers
        \* is within its width
        /\ pixel_offset + delta_x <= RectWidth
        /\ pixel_offset + delta_x >= 0 - RectWidth
        /\ LET d == drag(visible_range, pixel_offset, Len(dw_bars), delta_x)
           IN  /\ visible_range' = d.visible_range
               /\ pixel_offset' = d.pixel_offset
               /\ view_pc' = IF d.panic THEN "panicked" ELSE "running"
    /\ pricedRange' = visible_range
    /\ SetView(update_price_range_extrema(ViewNow))
    /\ NoRebuild
    /\ UNCHANGED otherThanView

\* gui.rs:64, 113-116: the chart, then a turn of the wheel
FrameScroll ==
    /\ view_pc = "running"
    /\ \E zoomIn \in BOOLEAN :
        visible_range' = zoom(visible_range, Len(dw_bars), zoomIn)
    /\ pricedRange' = visible_range
    /\ SetView(update_price_range_extrema(ViewNow))
    /\ NoRebuild
    /\ UNCHANGED <<pixel_offset, view_pc, otherThanView>>

\* gui.rs:64: a frame without input
FrameIdle ==
    /\ view_pc = "running"
    /\ pricedRange' = visible_range
    /\ SetView(update_price_range_extrema(ViewNow))
    /\ NoRebuild
    /\ UNCHANGED <<visible_range, pixel_offset, view_pc, otherThanView>>

InitView ==
    /\ ViewInit
    /\ TreeInit
    /\ LoopInit
    /\ ExtraInit
    /\ StoreInit
    /\ SyncIdleInit
    /\ recent_data = EmptyRun
    /\ timeframe_remainder = <<>>
    /\ bars = <<>>
    /\ timeframe_minutes = 1
    /\ flushed = FALSE
    /\ fed = <<>>
    /\ lastCall = "none"
    /\ lastRemainder = <<>>
    /\ lastKlines = <<>>
    /\ lastResult = <<>>

NextView == FrameRebuild \/ FrameZoomButton \/ FrameDrag \/ FrameScroll \/ FrameIdle

SpecView == InitView /\ [][NextView]_vars

\* the display loop when only the timeframe buttons are used
NextRebuild == FrameRebuildLong \/ FrameIdle

SpecRebuild == InitView /\ [][NextRebuild]_vars

(***************************************************************************)
(* update_loop (timeframe.rs:17-34): every 10 seconds it looks at `timer`, *)
(* and once UPDATE_INTERVAL seconds have passed it fetches the candles of  *)
(* the last five minutes and hands them to process_data_chunk.             *)
(***************************************************************************)
\* timeframe.rs:196-206  fetch_data_chunk at `now` seconds, when the request
\* succeeds: the minutes of [now - 5 min, now - 1 min] the source has, at
\* most 300 of them
fetch_data_chunk(now) ==
    LET startTime == now * 1000 - CHUNK_WINDOW_MS
        endTime == now * 1000 - MINUTE_MS
        first == ((startTime + MINUTE_MS - 1) \div MINUTE_MS) * MINUTE_MS
        n == IF endTime < first THEN 0 ELSE (endTime - first) \div MINUTE_MS + 1
    IN  { Batch(first, len, 0) : len \in 0 .. MinOf({n, 300}) }

otherThanLoop == <<convVars, syncVars, storeVars, viewVars, extraVars, status_messages>>

\* timeframe.rs:21, 32: the interval has not passed; sleep
LoopSleep ==
    /\ loop_pc = "running"
    /\ loop_now - timer < UPDATE_INTERVAL
    /\ loop_now < MaxPolls * UPDATE_INTERVAL
    /\ loop_now' = loop_now + SLEEP_SECS
    /\ UNCHANGED <<loop_pc, timer, loop_result, fetch_failures, recent_data,
                   dbVars, otherThanLoop>>

\* timeframe.rs:21-24, 30-32: the fetch succeeds; process_data_chunk(..)?,
\* the timer is set again, sleep
LoopFetch ==
    /\ loop_pc = "running"
    /\ loop_now - timer >= UPDATE_INTERVAL
    /\ \E data \in fetch_data_chunk(loop_now) :
        LET r == process_data_chunk(SYMBOL, data, db_blocks, db_last, recent_data)
        IN  /\ db_blocks' = r.blocks
            /\ db_last' = r.last
            /\ recent_data' = r.recent
            /\ IF r.result.kind = "ok"
               THEN /\ timer' = loop_now
                    /\ loop_now' = loop_now + SLEEP_SECS
                    /\ UNCHANGED <<loop_pc, loop_result>>
               ELSE /\ loop_pc' = "returned"
                    /\ loop_result' = r.result
                    /\ UNCHANGED <<timer, loop_now>>
    /\ UNCHANGED <<fetch_failures, otherThanLoop>>

\* timeframe.rs:22, 26-28 and fetch.rs:37-41: the request fails to send, or
\* the status is not a success (429 among them); `return Err(e)`
LoopFetchFails ==
    /\ loop_pc = "running"
    /\ loop_now - timer >= UPDATE_INTERVAL
    /\ \E cause \in {"send", "status 429", "status 500"} :
        loop_result' = [kind |-> "fetch", cause |-> cause]
    /\ loop_pc' = "returned"
    /\ fetch_failures' = fetch_failures + 1
    /\ UNCHANGED <<loop_now, timer, recent_data, dbVars, otherThanLoop>>

InitLoop == Init

NextLoop == LoopSleep \/ LoopFetch \/ LoopFetchFails

SpecLoop == InitLoop /\ [][NextLoop]_vars

(***************************************************************************)
(* The DataWindow as an object (datawindow.rs, interactivegui.rs): its     *)
(* methods and the pan and zoom handlers called one at a time, in any      *)
(* order.                                                                  *)
(***************************************************************************)
\* datawindow.rs:169-195  get_max_volume: the value returned and the
\* cached_max_volume it leaves; `cached` is cached_max_volume at the call
get_max_volume(dw, cached) ==
    IF dw.cached_visible_range = Some(dw.visible_range) /\ cached.some
    THEN [value |-> cached.value, cached_max_volume |-> cached]
    ELSE
      LET start == MaxOf({dw.visible_range[1], 0})
          end == MinOf({dw.visible_range[2], Len(dw.bars)})
          max == MaxOf({0} \cup { dw.bars[i].volume : i \in start + 1 .. end })
      IN  IF start >= end
          THEN [value |-> 0, cached_max_volume |-> Some(0)]
          ELSE [value |-> max, cached_max_volume |-> Some(max)]

otherThanWindow == <<convVars, recent_data, dbVars, syncVars, storeVars, loopVars, dbts,
                    pending, status_messages, rsi_calculator, rsi_out, moreVars>>

\* datawindow.rs:27-101: a get_data_window that succeeds
CallGetDataWindow ==
    /\ view_pc = "running"
    /\ \E entries \in { r \in RebuildReads : BlockLoop(r).kind = "ok" },
          newBars \in ViewBarSeqs :
        \E mins \in SortedOrders(Len(newBars),
                        [i \in 1 .. Len(newBars) |-> newBars[i].low]),
           maxs \in SortedOrders(Len(newBars),
                        [i \in 1 .. Len(newBars) |-> 0 - newBars[i].high]) :
          LET r == get_data_window(ViewNow, Ok, entries, newBars, mins, maxs)
          IN  /\ view_result' = r.result
              /\ lastReads' = entries
              /\ visible_range' = r.dw.visible_range
              /\ pricedRange' = r.dw.visible_range
              /\ SetView(r.dw)
    /\ max_volume' = None
    /\ UNCHANGED <<pixel_offset, view_pc, cached_max_volume, otherThanWindow>>

\* interactivegui.rs:80-105: zoom
CallZoom ==
    /\ view_pc = "running"
    /\ \E zoomIn \in BOOLEAN :
        visible_range' = zoom(visible_range, Len(dw_bars), zoomIn)
    /\ max_volume' = None
    /\ UNCHANGED <<dw_bars, price, min_indexes, max_indexes, cached_visible_range,
                   pixel_offset, view_pc, view_result, lastReads, pricedRange,
                   cached_max_volume, otherThanWindow>>

\* gui.rs:82-112: the drag handler
CallDrag ==
    /\ view_pc = "running"
    /\ \E delta_x \in {0 - 20, 20} :
        /\ pixel_offset + delta_x <= RectWidth
        /\ pixel_offset + delta_x >= 0 - RectWidth
        /\ LET d == drag(visible_range, pixel_offset, Len(dw_bars), delta_x)
           IN  /\ visible_range' = d.visible_range
               /\ pixel_offset' = d.pixel_offset
               /\ view_pc' = IF d.panic THEN "panicked" ELSE "running"
    /\ max_volume' = None
    /\ UNCHANGED <<dw_bars, price, min_indexes, max_indexes, cached_visible_range,
                   view_result, lastReads, pricedRange, cached_max_volume,
                   otherThanWindow>>

\* datawindow.rs:103-167: update_price_range_extrema
CallUpdatePrice ==
    /\ view_pc = "running"
    /\ pricedRange' = visible_range
    /\ SetView(update_price_range_extrema(ViewNow))
    /\ max_volume' = None
    /\ UNCHANGED <<visible_range, pixel_offset, view_pc, view_result, lastReads,
                   cached_max_volume, otherThanWindow>>

\* datawindow.rs:169-195: get_max_volume
CallGetMaxVolume ==
    /\ view_pc = "running"
    /\ LET r == get_max_volume(ViewNow, cached_max_volume)
       IN  /\ max_volume' = Some(r.value)
           /\ cached_max_volume' = r.cached_max_volume
    /\ UNCHANGED <<viewVars, otherThanWindow>>

NextWindow ==
    \/ CallGetDataWindow \/ CallZoom \/ CallDrag \/ CallUpdatePrice
    \/ CallGetMaxVolume

SpecWindow == InitView /\ [][NextWindow]_vars

(***************************************************************************)
(* The thread that runs the display loop.  eframe calls update on it       *)
(* (gui.rs:9); a timeframe button calls update_data_window from inside     *)
(* update (gui.rs:21-25), which calls get_data_window and so sync_data     *)
(* (interactivegui.rs:111, datawindow.rs:39) on the same thread: no thread *)
(* is spawned anywhere in src/.  So while sync_data is in its loop,        *)
(* fetching (timeframe.rs:115) or sleeping (timeframe.rs:113), update has  *)
(* not returned, and the input that arrives waits for the next update.     *)
(***************************************************************************)
otherThanPending == <<convVars, recent_data, dbVars, syncVars, storeVars, viewVars,
                      loopVars, dbts, cached_max_volume, max_volume, status_messages,
                      rsi_calculator, rsi_out, moreVars>>

\* the user drags, scrolls or clicks: the event waits for the next update
InputArrives ==
    /\ pending < MaxPending
    /\ pending' = pending + 1
    /\ UNCHANGED otherThanPending

\* gui.rs:9-132: update runs and handles the input that waited; it can only
\* start when the update before it has returned
UiFrame ==
    /\ sync_pc = "idle"
    /\ pending > 0
    /\ pending' = 0
    /\ UNCHANGED otherThanPending

NextUi == Next \/ InputArrives \/ UiFrame

SpecUi == Init /\ [][NextUi]_vars

(***************************************************************************)
(* get_dbtimestamp (timeframe.rs:192-194) as a function of its argument:   *)
(* a timestamp is drawn, its block start taken, and the block start of     *)
(* that.  Timestamps are epoch milliseconds of 1970 or later, as           *)
(* `now - 15 days` and the open_time of a candle are.                      *)
(***************************************************************************)
\* places inside a block: its ends, the minutes next to them, its middle,
\* and times off the minute grid
DbtsOffsets ==
    {0, 1, MINUTE_MS - 1, MINUTE_MS, MINUTE_MS + 1, HalfBlock,
     SYNC_STEP_MS - MINUTE_MS, SYNC_STEP_MS - 1}
      \cup { k * 7 * MINUTE_MS + 123 : k \in 0 .. 10 }

DbtsInputs ==
    { b * SYNC_STEP_MS + off : b \in 0 .. MaxBlock + 1, off \in DbtsOffsets }

otherThanDbts == <<convVars, recent_data, dbVars, syncVars, storeVars, viewVars,
                   loopVars, pending, cached_max_volume, max_volume,
                   status_messages, rsi_calculator, rsi_out, moreVars>>

\* get_dbtimestamp(t)
DbtsOnce ==
    /\ dbts.pc = "drawn"
    /\ dbts' = [dbts EXCEPT !.pc = "once", !.once = get_dbtimestamp(dbts.t)]
    /\ UNCHANGED otherThanDbts

\* get_dbtimestamp(get_dbtimestamp(t))
DbtsTwice ==
    /\ dbts.pc = "once"
    /\ dbts' = [dbts EXCEPT !.pc = "twice", !.twice = get_dbtimestamp(dbts.once)]
    /\ UNCHANGED otherThanDbts

InitDbts ==
    /\ \E t \in DbtsInputs : dbts = [pc |-> "drawn", t |-> t, once |-> 0, twice |-> 0]
    /\ cached_max_volume = None
    /\ max_volume = None
    /\ rsi_calculator = None
    /\ rsi_out = None
    /\ MoreInit
    /\ status_messages = <<>>
    /\ pending = 0
    /\ TreeInit
    /\ ViewInit
    /\ LoopInit
    /\ StoreInit
    /\ SyncIdleInit
    /\ recent_data = EmptyRun
    /\ timeframe_remainder = <<>>
    /\ bars = <<>>
    /\ timeframe_minutes = 1
    /\ flushed = FALSE
    /\ fed = <<>>
    /\ lastCall = "none"
    /\ lastRemainder = <<>>
    /\ lastKlines = <<>>
    /\ lastResult = <<>>

NextDbts == DbtsOnce \/ DbtsTwice

SpecDbts == InitDbts /\ [][NextDbts]_vars

(***************************************************************************)
(* WilderRSI (rsi.rs, which lib.rs:16 declares; the file is not part of    *)
(* the sources, so the calculator follows the description of the streaming *)
(* indicator).  f64 values are pairs <<numerator, denominator>> as for the *)
(* prices.  Until the calculator is seeded, avg_gain and avg_loss hold the *)
(* sums of the gains and losses seen; the first sample has no previous     *)
(* close and counts as a gain of 0 and a loss of 0.  From the seeding on   *)
(* the averages keep the denominator they were seeded with and the         *)
(* smoothing step rounds down to it, where f64 rounds to 53 bits.          *)
(***************************************************************************)
period == 14

FAdd(a, b) ==
    IF a[2] = b[2] THEN <<a[1] + b[1], a[2]>>
    ELSE <<a[1] * b[2] + b[1] * a[2], a[2] * b[2]>>

FSub(a, b) ==
    IF a[2] = b[2] THEN <<a[1] - b[1], a[2]>>
    ELSE <<a[1] * b[2] - b[1] * a[2], a[2] * b[2]>>

\* WilderRSI::new(period)
WilderRSI_new(p) ==
    [period |-> p, count |-> 0, prev_close |-> <<0, 1>>,
     avg_gain |-> <<0, 1>>, avg_loss |-> <<0, 1>>]

\* the simple average of `p` observations whose sum is `sum`
RsiSeed(sum, p) == <<sum[1], sum[2] * p>>

\* (avg * (p - 1) + x) / p
RsiSmooth(avg, x, p) ==
    <<(avg[1] * (p - 1) + x[1] * (avg[2] \div x[2])) \div p, avg[2]>>

\* 100 - 100 / (1 + avg_gain / avg_loss), and 100 when avg_loss is 0
RsiValue(avg_gain, avg_loss) ==
    IF avg_loss[1] = 0 THEN <<100, 1>>
    ELSE <<100 * avg_gain[1], avg_gain[1] + avg_loss[1]>>

\* WilderRSI::add(close) -> Option<f64>: the new state and what is returned
WilderRSI_add(rsi, close) ==
    LET change == IF rsi.count = 0 THEN <<0, close[2]>>
                  ELSE FSub(close, rsi.prev_close)
        gain == IF change[1] > 0 THEN change ELSE <<0, change[2]>>
        loss == IF change[1] < 0 THEN <<0 - change[1], change[2]>>
                ELSE <<0, change[2]>>
        count == rsi.count + 1
        avg_gain == IF count < rsi.period THEN FAdd(rsi.avg_gain, gain)
                    ELSE IF count = rsi.period
                         THEN RsiSeed(FAdd(rsi.avg_gain, gain), rsi.period)
                         ELSE RsiSmooth(rsi.avg_gain, gain, rsi.period)
        avg_loss == IF count < rsi.period THEN FAdd(rsi.avg_loss, loss)
                    ELSE IF count = rsi.period
                         THEN RsiSeed(FAdd(rsi.avg_loss, loss), rsi.period)
                         ELSE RsiSmooth(rsi.avg_loss, loss, rsi.period)
    IN  [state |-> [period |-> rsi.period, count |-> count, prev_close |-> close,
                    avg_gain |-> avg_gain, avg_loss |-> avg_loss],
         out |-> IF count < rsi.period THEN None
                 ELSE Some(RsiValue(avg_gain, avg_loss))]

\* datawindow.rs:43-44 with a period one longer
NewRsiCalculator_Longer == WilderRSI_new(period + 1)

\* datawindow.rs:43-44: let period = 14; let mut rsi_calculator = WilderRSI::new(period);
NewRsiCalculator == WilderRSI_new(period)

(***************************************************************************)
(* The calculator of one rebuild fed close after close: the first close    *)
(* is RsiFirstClose, each later one the close before it moved by one of    *)
(* RsiMoves, up to MaxMore samples past the seeding one.                   *)
(***************************************************************************)
RsiFirstClose == 1000000
RsiMoves == {0 - 300, 0, 100}

RsiCloses ==
    IF rsi_calculator.count = 0 THEN { ToPrice(RsiFirstClose) }
    ELSE { <<rsi_calculator.prev_close[1] + d, rsi_calculator.prev_close[2]>> :
             d \in RsiMoves }

otherThanRsi == <<convVars, recent_data, dbVars, syncVars, storeVars, viewVars,
                  loopVars, dbts, pending, cached_max_volume, max_volume,
                  status_messages, moreVars>>

\* rsi_calculator.add(close)
RsiAdd ==
    /\ rsi_calculator.count < period + MaxMore
    /\ \E close \in RsiCloses :
          LET r == WilderRSI_add(rsi_calculator, close)
          IN  /\ rsi_calculator' = r.state
              /\ rsi_out' = r.out
    /\ UNCHANGED otherThanRsi

IdleButRsi ==
    /\ dbts = NoDbts
    /\ MoreInit
    /\ cached_max_volume = None
    /\ max_volume = None
    /\ status_messages = <<>>
    /\ pending = 0
    /\ TreeInit
    /\ ViewInit
    /\ LoopInit
    /\ StoreInit
    /\ SyncIdleInit
    /\ recent_data = EmptyRun

InitRsi ==
    /\ rsi_calculator = NewRsiCalculator
    /\ rsi_out = None
    /\ IdleButRsi
    /\ timeframe_remainder = <<>>
    /\ bars = <<>>
    /\ timeframe_minutes = 1
    /\ flushed = FALSE
    /\ fed = <<>>
    /\ lastCall = "none"
    /\ lastRemainder = <<>>
    /\ lastKlines = <<>>
    /\ lastResult = <<>>

NextRsi == RsiAdd

SpecRsi == InitRsi /\ [][NextRsi]_vars

(***************************************************************************)
(* get_data_window of datawindow.rs: the resampling calls of one rebuild   *)
(* with the calculator that the rebuild creates.  The convert_to_timeframe *)
(* that takes the calculator is not part of the sources (timeframe.rs:131  *)
(* has four parameters); it is the four-parameter one that also adds the   *)
(* close of every bar it returns, in the order it returns them.            *)
(***************************************************************************)
\* rsi.add(bs[lo + 1].close), .., rsi.add(bs[hi].close): the state after them
\* and what the last add returned (`out` if there was none), run by halves
RECURSIVE AddCloses(_, _, _, _, _)
AddCloses(rsi, out, bs, lo, hi) ==
    IF hi <= lo THEN [state |-> rsi, out |-> out]
    ELSE IF hi = lo + 1
         THEN WilderRSI_add(rsi, bs[hi].close)
         ELSE LET mid == (lo + hi) \div 2
                  first == AddCloses(rsi, out, bs, lo, mid)
              IN  IF first.state.count >= 0
                  THEN AddCloses(first.state, first.out, bs, mid, hi)
                  ELSE first

\* convert_to_timeframe(klines, tf, dolastbar, data_window, &mut rsi)
convert_to_timeframe_rsi(klines, tf, dolastbar, remainder, rsi, out) ==
    LET r == convert_to_timeframe(klines, tf, dolastbar, remainder)
        a == AddCloses(rsi, out, r.result, 0, Len(r.result))
    IN  [result |-> r.result, remainder |-> r.remainder,
         rsi |-> a.state, out |-> a.out]

\* one call with the calculator `rsi`, and bars.extend(converted)
ConvertCarry(klines, dolastbar, rsi) ==
    LET r == convert_to_timeframe_rsi(klines, timeframe_minutes, dolastbar,
                                      timeframe_remainder, rsi, rsi_out)
    IN  /\ timeframe_remainder' = r.remainder
        /\ bars' = bars \o r.result
        /\ rsi_calculator' = r.rsi
        /\ rsi_out' = r.out
        /\ fed' = fed \o klines
        /\ lastCall' = IF dolastbar THEN "tail" ELSE "block"
        /\ lastRemainder' = timeframe_remainder
        /\ lastKlines' = klines
        /\ lastResult' = r.result
        /\ flushed' = dolastbar
        /\ UNCHANGED <<timeframe_minutes, recent_data, dbVars, syncVars, storeVars,
                       viewVars, loopVars, status_messages, dbts, pending,
                       cached_max_volume, max_volume, moreVars>>

\* the block loop with a calculator made anew for every block
CarryBlock_FreshRsi ==
    /\ ~flushed
    /\ \E klines \in ConvInputs : ConvertCarry(klines, FALSE, NewRsiCalculator)

\* datawindow.rs:57-63,70: convert_to_timeframe(block, tf, false, dw, &mut rsi_calculator)
CarryBlock ==
    /\ ~flushed
    /\ \E klines \in ConvInputs : ConvertCarry(klines, FALSE, rsi_calculator)

\* datawindow.rs:79-85: convert_to_timeframe(recent_data, tf, true, dw, &mut rsi_calculator)
CarryTail ==
    /\ ~flushed
    /\ \E klines \in ConvInputs : ConvertCarry(klines, TRUE, rsi_calculator)

\* the next get_data_window: bars = Vec::new() and a new calculator
CarryNewWindow ==
    /\ flushed
    /\ timeframe_minutes' \in Timeframes
    /\ bars' = <<>>
    /\ rsi_calculator' = NewRsiCalculator
    /\ rsi_out' = None
    /\ fed' = <<>>
    /\ flushed' = FALSE
    /\ lastCall' = "none"
    /\ lastRemainder' = <<>>
    /\ lastKlines' = <<>>
    /\ lastResult' = <<>>
    /\ UNCHANGED <<timeframe_remainder, recent_data, dbVars, syncVars, storeVars,
                   viewVars, loopVars, status_messages, dbts, pending,
                   cached_max_volume, max_volume, moreVars>>

InitCarry ==
    /\ rsi_calculator = NewRsiCalculator
    /\ rsi_out = None
    /\ IdleButRsi
    /\ timeframe_remainder = <<>>
    /\ bars = <<>>
    /\ timeframe_minutes \in Timeframes
    /\ flushed = FALSE
    /\ fed = <<>>
    /\ lastCall = "none"
    /\ lastRemainder = <<>>
    /\ lastKlines = <<>>
    /\ lastResult = <<>>

NextCarry == CarryBlock \/ CarryTail \/ CarryNewWindow

SpecCarry == InitCarry /\ [][NextCarry]_vars

(***************************************************************************)
(* get_data_window followed block by block, candle by candle: the blocks   *)
(* of the store are read in turn, the first one read while `bars` is empty *)
(* is cut to its first hh:00 candle, each is resampled with dolastbar =    *)
(* false, and recent_data is resampled last with dolastbar = true.  A read *)
(* may fail (`db.get_block(..)?`), which ends the rebuild where it is.     *)
(* Candles here have volume 1, so that the volume of a bar is the number   *)
(* of candles it aggregates.  The store holds some of the blocks           *)
(* 0 .. MaxBlock - 1 of 1000 minutes from ConvT0 (16:40 UTC, so the blocks *)
(* begin at :40, :20, :00, ..); sync_data at the head of a rebuild may add *)
(* blocks and replaces recent_data.                                        *)
(***************************************************************************)
\* gui.rs:21  for &tf in &[5, 15, 60, 240]
ButtonTimeframes == {5, 15, 60, 240}

\* dt.minute() of DateTime::from_timestamp_millis(t)
HourMinute(t) == (t \div MINUTE_MS) % 60

\* the candle of the i-th minute (from 0) after ConvT0
UnitCandle(i) ==
    LET o == 10000 + (i % 7) * 100
    IN  KLine(ConvT0 + i * MINUTE_MS, o, o + 200, o - 100, o + 100, 1)

\* the block b of the store
StoredBlock(b) == [k \in 1 .. BLOCK_SIZE |-> UnitCandle(b * BLOCK_SIZE + k - 1)]

\* recent_data as a Vec<KLine>
RecentCandles(data) ==
    [k \in 1 .. RunLen(data) |->
        UnitCandle((RunTime(data, k - 1) - ConvT0) \div MINUTE_MS)]

\* the still-forming tail after the last block: nothing, or seven minutes
RecentTails == { EmptyRun, Batch(ConvT0 + MaxBlock * SYNC_STEP_MS, 7, 0) }

\* block.iter().position(|k| minute(k.open_time) == 0), from 1; 0 for None
FirstHour(block) ==
    LET at == { i \in 1 .. Len(block) : HourMinute(block[i].open_time) = 0 }
    IN  IF at = {} THEN 0 ELSE MinOf(at)

\* datawindow.rs:48-55: the cut made when bars.is_empty()
CutToHour(block, bars_so_far) ==
    IF bars_so_far = <<>> /\ FirstHour(block) > 0
    THEN SubSeq(block, FirstHour(block), Len(block))
    ELSE block

otherThanRb == <<fed, lastCall, lastRemainder, lastKlines, lastResult, dbVars, syncVars,
                 storeVars, viewVars, loopVars, status_messages, dbts, pending,
                 cached_max_volume, max_volume, rsi_calculator, rsi_out, ag>>

\* datawindow.rs:27-44: get_data_window is called, sync_data returns Ok
\* having stored more blocks or none and left some recent_data
RbBegin ==
    /\ rb.pc = "idle"
    /\ rb.n < MaxClicks
    /\ timeframe_minutes' \in ButtonTimeframes
    /\ recent_data' \in RecentTails
    /\ bars' = <<>>
    /\ flushed' = FALSE
    /\ \E have \in SUBSET (0 .. MaxBlock - 1) :
          /\ rb.have \subseteq have
          /\ rb' = [pc |-> "blocks", have |-> have, n |-> rb.n + 1, block |-> 0,
                    trims |-> <<>>, result |-> "none",
                    carried |-> Len(timeframe_remainder)]
    /\ UNCHANGED <<timeframe_remainder, otherThanRb>>

\* datawindow.rs:39: sync_data(..)? returns the Err
RbSyncFails ==
    /\ rb.pc = "idle"
    /\ rb.n < MaxClicks
    /\ rb' = [rb EXCEPT !.n = rb.n + 1, !.result = "err"]
    /\ UNCHANGED <<timeframe_remainder, timeframe_minutes, recent_data, bars, flushed,
                   otherThanRb>>

\* datawindow.rs:45-74: one turn of the block loop that finds the block
RbLoad(dolastbar) ==
    /\ rb.pc = "blocks"
    /\ rb.block < MaxBlock
    /\ rb.block \in rb.have
    /\ LET block == StoredBlock(rb.block)
           cut == CutToHour(block, bars)
           r == convert_to_timeframe(cut, timeframe_minutes, dolastbar,
                                     timeframe_remainder)
       IN  /\ timeframe_remainder' = r.remainder
           /\ bars' = bars \o r.result
           /\ rb' = [rb EXCEPT !.block = rb.block + 1,
                               !.trims = Append(rb.trims,
                                                [block |-> rb.block,
                                                 removed |-> Len(block) - Len(cut)])]
    /\ UNCHANGED <<timeframe_minutes, recent_data, flushed, otherThanRb>>

\* the block loop calling the resampler with dolastbar = true
RbBlock_Flush == RbLoad(TRUE)

\* datawindow.rs:57-63: convert_to_timeframe(block, timeframe_minutes, false, ..)
RbBlock == RbLoad(FALSE)

\* datawindow.rs:71-74: no block under this key
RbBlockAbsent ==
    /\ rb.pc = "blocks"
    /\ rb.block < MaxBlock
    /\ rb.block \notin rb.have
    /\ rb' = [rb EXCEPT !.block = rb.block + 1]
    /\ UNCHANGED <<timeframe_remainder, timeframe_minutes, recent_data, bars, flushed,
                   otherThanRb>>

\* datawindow.rs:47: db.get_block(..)? returns the Err of the store
RbBlockFails ==
    /\ rb.pc = "blocks"
    /\ rb.block < MaxBlock
    /\ rb.block \in rb.have
    /\ rb' = [rb EXCEPT !.pc = "idle", !.result = "err"]
    /\ UNCHANGED <<timeframe_remainder, timeframe_minutes, recent_data, bars, flushed,
                   otherThanRb>>

\* datawindow.rs:79-87: the loop is over; recent_data with dolastbar = true
RbTail ==
    /\ rb.pc = "blocks"
    /\ rb.block = MaxBlock
    /\ LET r == convert_to_timeframe(RecentCandles(recent_data), timeframe_minutes,
                                     TRUE, timeframe_remainder)
       IN  /\ timeframe_remainder' = r.remainder
           /\ bars' = bars \o r.result
    /\ flushed' = TRUE
    /\ rb' = [rb EXCEPT !.pc = "idle", !.result = "ok"]
    /\ UNCHANGED <<timeframe_minutes, recent_data, otherThanRb>>

NextBlocks ==
    RbBegin \/ RbSyncFails \/ RbBlock \/ RbBlockAbsent \/ RbBlockFails \/ RbTail

SpecBlocks == Init /\ [][NextBlocks]_vars

(***************************************************************************)
(* Hourly aggregation (db.rs:122-324).  The store holds one candle per key *)
(* "{symbol}_{open_time}", which is how get_range_data decodes the values  *)
(* (db.rs:106-108), and one hourly record per key "{symbol}_aggr_{hour}".  *)
(* Times are in milliseconds.  chrono's Local is taken at a whole-hour     *)
(* offset, where with_minute(0) of the local time is the UTC hour.         *)
(***************************************************************************)
HOUR_MS == 3600000

\* db.rs:6: use crate::settings::AGGREGATION_VERSION (settings.rs has no
\* such constant); any value other than the 0 read for an absent key
AGGREGATION_VERSION == 1

AggrHours == 1 .. MaxHours
AggrMinutes == {0, 1, 59}
AggrTimes == { h * HOUR_MS + m * MINUTE_MS : h \in AggrHours, m \in AggrMinutes }
AggrPrices == {10, 20}

\* a one-minute candle of the symbol
SourceCandle(t, p) ==
    [open_time |-> t, open |-> p, high |-> p + 1, low |-> p - 1,
     close |-> p + 1, volume |-> 1]

\* db.rs:176-185, 192-201, 237-246: with_minute(0).with_second(0)
\* .with_nanosecond(0) of a time
HourAligned(t) == t - (t % HOUR_MS)

\* db.rs:69-87: the first key of the prefix that parses as a timestamp (the
\* keys of real candles have the same number of digits, so the first in key
\* order is the earliest), 0 when there is none
get_first_timestamp(src) == IF DOMAIN src = {} THEN 0 ELSE MinOf(DOMAIN src)

\* db.rs:89-120: the candles whose key is in [aggr_start, aggr_end], sorted
\* by open_time
RECURSIVE SortedByTime(_)
SortedByTime(S) ==
    IF S = {} THEN <<>>
    ELSE LET first == CHOOSE k \in S : \A q \in S : k.open_time <= q.open_time
         IN  <<first>> \o SortedByTime(S \ {first})

get_range_data(src, aggr_start, aggr_end) ==
    SortedByTime({ src[t] : t \in { u \in DOMAIN src :
                                       u >= aggr_start /\ u <= aggr_end } })

RECURSIVE SumField(_, _)
SumField(group, i) ==
    IF i > Len(group) THEN 0 ELSE group[i].volume + SumField(group, i + 1)

\* db.rs:262-269: the hourly record of one group
Aggregated(hour_timestamp, group) ==
    [open_time |-> hour_timestamp,
     open |-> group[1].open,
     high |-> MaxOf({ group[i].high : i \in 1 .. Len(group) }),
     low |-> MinOf({ group[i].low : i \in 1 .. Len(group) }),
     close |-> group[Len(group)].close,
     volume |-> SumField(group, 1)]

\* db.rs:234-249: the candles of klines whose hour is hour_timestamp, in order
HourGroup(klines, hour_timestamp) ==
    SelectSeq(klines, LAMBDA k : HourAligned(k.open_time) = hour_timestamp)

\* db.rs:174-189: first run from the hour of the first candle, later runs
\* from the hour after the last aggregated one
AggrStartTime(first_timestamp, last_aggr_timestamp) ==
    IF last_aggr_timestamp = 0
    THEN HourAligned(first_timestamp)
    ELSE last_aggr_timestamp + HOUR_MS

otherThanAg == <<convVars, recent_data, dbVars, syncVars, storeVars, viewVars,
                 loopVars, status_messages, dbts, pending, cached_max_volume,
                 max_volume, rsi_calculator, rsi_out, rb>>

\* db.rs:25-52: insert_block(symbol, t, one candle): the key and the
\* "last_{symbol}" pointer in one transaction.  Candles arrive in time order.
InsertCandle ==
    \E t \in AggrTimes, p \in AggrPrices :
        /\ \A u \in DOMAIN ag.src : u < t
        /\ ag' = [ag EXCEPT
                    !.src = [u \in DOMAIN ag.src \cup {t} |->
                                IF u = t THEN SourceCandle(t, p) ELSE ag.src[u]],
                    !.last_src = t,
                    !.fresh = TRUE]
        /\ UNCHANGED otherThanAg

\* db.rs:133-160: a version other than the stored one removes the hourly
\* records and their pointers and stores the new version
AfterVersionCheck(a) ==
    IF a.version # AGGREGATION_VERSION
    THEN [a EXCEPT !.aggr = NoRecords, !.last_aggr = 0, !.first_aggr = 0,
                   !.version = AGGREGATION_VERSION]
    ELSE a

\* db.rs:256-296: one insert_block per hour of klines, in hour order, each
\* moving "last_{symbol}_aggr" to its hour
WriteHours(a, klines) ==
    LET hours == { HourAligned(klines[i].open_time) : i \in 1 .. Len(klines) }
    IN  [a EXCEPT
            !.aggr = [h \in DOMAIN a.aggr \cup hours |->
                         IF h \in hours
                         THEN Aggregated(h, HourGroup(klines, h))
                         ELSE a.aggr[h]],
            !.last_aggr = MaxOf(hours),
            !.first_aggr = IF a.first_aggr = 0 \/ MinOf(hours) < a.first_aggr
                           THEN MinOf(hours) ELSE a.first_aggr,
            !.wrote = hours]

\* db.rs:122-324: aggregate_ohlcv_data(symbol), no store error
aggregate_ohlcv_data(a0) ==
    LET a == [AfterVersionCheck(a0) EXCEPT !.wrote = {}]
        first_timestamp == get_first_timestamp(a.src)
        last_source_timestamp == a.last_src
        aggr_start == AggrStartTime(first_timestamp, a.last_aggr)
        aggr_end == HourAligned(last_source_timestamp)
        klines == get_range_data(a.src, aggr_start, aggr_end + 3599999)
    IN  IF first_timestamp = 0 \/ last_source_timestamp = 0 THEN a
        ELSE IF aggr_start > aggr_end THEN a
        ELSE IF klines = <<>> THEN a
        ELSE WriteHours(a, klines)

\* a call of aggregate_ohlcv_data; fresh tells whether a candle came since
\* the call before, called that this step was a call
Aggregate ==
    /\ ag' = [aggregate_ohlcv_data(ag) EXCEPT
                !.called = TRUE,
                !.idle = ~ag.fresh,
                !.fresh = FALSE]
    /\ UNCHANGED otherThanAg

NextAggr == InsertCandle \/ Aggregate

SpecAggr == Init /\ [][NextAggr]_vars

(***************************************************************************)
(* What get_data_window feeds the resampler once its sync_data has         *)
(* returned Ok: the blocks stored under the keys                           *)
(* get_dbtimestamp(start_time) + k * 60_000_000 <= end_time, in that       *)
(* order, then recent_data.  The bars come out in the order the candles go *)
(* in, each with the time of the first candle of its group.                *)
(***************************************************************************)
\* datawindow.rs:42,45,75: the block starts the loop asks for that are stored
LoadedStarts ==
    { t \in { get_dbtimestamp(start_time) + k * SYNC_STEP_MS : k \in 0 .. MaxBlock + 2 } :
        t <= end_time /\ BlockKey(SYMBOL, t) \in DOMAIN db_blocks }

\* open_time of the last candle of a run
RunLastTime(data) == RunTime(data, RunLen(data) - 1)

\* the runs of candles in the order fed: every loaded block begins after
\* the block loaded before it ends, and recent_data after all of them
FeedIncreasing ==
    /\ \A t, u \in LoadedStarts :
          t < u => RunLastTime(db_blocks[BlockKey(SYMBOL, t)])
                       < RunTime(db_blocks[BlockKey(SYMBOL, u)], 0)
    /\ RunLen(recent_data) > 0 =>
          \A t \in LoadedStarts :
              RunLastTime(db_blocks[BlockKey(SYMBOL, t)]) < RunTime(recent_data, 0)

(***************************************************************************)
(* Claims about sync_data and process_data_chunk, checked under Spec.      *)
(***************************************************************************)
\* some pair of consecutive candles is not exactly 60000 ms apart
HasGap(data) ==
    \E i \in 1 .. RunLen(data) - 1 :
        RunTime(data, i) - RunTime(data, i - 1) # 60000

\* this step received a batch and handed it to process_data_chunk
BatchProcessed ==
    /\ requests' # requests
    /\ lastOutcome'.kind \in {"ok", "consistency"}

\* C6: the contiguity check rejects every fetched batch that has a pair of
\* consecutive candles not exactly 60000 ms apart, whatever its length, and
\* accepts every batch that has none.
C6_ContiguityCheck ==
    lastOutcome.kind \in {"ok", "consistency"} =>
        (HasGap(lastBatch) <=> lastOutcome.kind = "consistency")

\* C7: when a batch fails the contiguity check nothing of it is written: the
\* stored blocks and the last-timestamp pointer are what they were before the
\* batch, blocks of earlier batches included, and the error sync_data returns
\* names the symbol and the two timestamps around the gap.
C7_RejectedBatchNotWritten ==
    [][ (BatchProcessed /\ lastOutcome'.kind = "consistency") =>
            /\ db_blocks' = db_blocks
            /\ db_last' = db_last
            /\ sync_pc' = "idle"
            /\ sync_result' = lastOutcome'
            /\ sync_result'.symbol = SYMBOL
            /\ \E i \in 1 .. RunLen(lastBatch') - 1 :
                   /\ sync_result'.prev_time = RunTime(lastBatch', i - 1)
                   /\ sync_result'.next_time = RunTime(lastBatch', i)
                   /\ sync_result'.next_time - sync_result'.prev_time # 60000 ]_vars

\* the second batch of a sync was rejected, the block of the first is stored
C7_Witness ==
    /\ sync_result.kind = "consistency"
    /\ Len(requests) = 2
    /\ BlockKey(SYMBOL, requests[1]) \in DOMAIN db_blocks
    /\ BlockKey(SYMBOL, requests[2]) \notin DOMAIN db_blocks

AllBlocksFull ==
    \A k \in DOMAIN db_blocks : RunLen(db_blocks[k]) = 1000

\* an empty store, a block-aligned start, 1500 minutes to fetch and a source
\* that holds them all
ScenarioA ==
    /\ sync_pc = "idle"
    /\ sync_result = Ok
    /\ last_timestamp = 0
    /\ start_time = get_dbtimestamp(start_time)
    /\ end_time = start_time + 1500 * 60000
    /\ complete

\* C8: batch routing.  A batch of exactly 1000 candles (that passed the
\* contiguity check) is written to the store as one block, under its first
\* open_time; a shorter batch becomes recent_data and the store is untouched.
\* So every stored block holds exactly 1000 candles, and a sync of 1500
\* block-aligned minutes into an empty store leaves one block and 500 candles
\* in recent_data.
C8_BatchRouting ==
    /\ [](AllBlocksFull)
    /\ [](ScenarioA =>
            /\ DOMAIN db_blocks = { BlockKey(SYMBOL, start_time) }
            /\ RunLen(recent_data) = 500)
    /\ [][ (BatchProcessed /\ lastOutcome'.kind = "ok") =>
             IF RunLen(lastBatch') = 1000
             THEN /\ DOMAIN db_blocks' =
                        DOMAIN db_blocks \cup { BlockKey(SYMBOL, RunTime(lastBatch', 0)) }
                  /\ db_blocks'[BlockKey(SYMBOL, RunTime(lastBatch', 0))] = lastBatch'
                  /\ \A k \in DOMAIN db_blocks :
                         k # BlockKey(SYMBOL, RunTime(lastBatch', 0))
                             => db_blocks'[k] = db_blocks[k]
             ELSE /\ db_blocks' = db_blocks
                  /\ db_last' = db_last
                  /\ recent_data' = lastBatch' ]_vars

\* the 1500-minute sync has ended: one block stored, 500 candles buffered
C8_Witness ==
    /\ ScenarioA
    /\ Cardinality(DOMAIN db_blocks) = 1
    /\ Len(requests) = 2
    /\ RunLen(recent_data) = 500

Covers(data, t) ==
    \E i \in { (t - data.first) \div 60000 - 1, (t - data.first) \div 60000 } :
        /\ 0 <= i
        /\ i < RunLen(data)
        /\ RunTime(data, i) = t

\* the candle with open_time t is in a stored block or in recent_data
Held(t) ==
    \/ Covers(recent_data, t)
    \/ \E k \in DOMAIN db_blocks : Covers(db_blocks[k], t)

\* C11: no silent data loss in sync.  When sync_data has returned Ok, every
\* candle of every batch it fetched is in a stored block or in recent_data.
C11_NoSilentLoss ==
    (sync_pc = "idle" /\ sync_result = Ok) =>
        \A b \in fetched :
            \A i \in 0 .. RunLen(b) - 1 : Held(RunTime(b, i))

\* C13: a failure of insert_block for a full batch is propagated:
\* process_data_chunk returns the error, and sync_data ends with it instead
\* of going on to the next block.
C13_StorageFailurePropagated ==
    lastInsert = "failed" =>
        /\ lastOutcome.kind = "storage"
        /\ sync_pc = "idle"
        /\ sync_result.kind = "storage"

(***************************************************************************)
(* Claims about the store (db.rs), checked under SpecStore.                *)
(***************************************************************************)
\* the tree that holds what the committed insert_blocks wrote and nothing else
Committed(h) ==
    LET blockKeys == { TreeBlockKey(q[1], q[2]) : q \in DOMAIN h.blocks }
        lastKeys == { TreeLastKey(sym) : sym \in DOMAIN h.last }
    IN  [k \in blockKeys \cup lastKeys |->
            IF k \in blockKeys
            THEN h.blocks[CHOOSE q \in DOMAIN h.blocks : TreeBlockKey(q[1], q[2]) = k]
            ELSE to_be_bytes(h.last[CHOOSE sym \in DOMAIN h.last : TreeLastKey(sym) = k])]

\* what readers can see of a symbol: a pointer exactly when a block, and the
\* pointer is the start of a block they can get
PairVisible ==
    \A sym \in Symbols :
        LET hasPointer == TreeLastKey(sym) \in DOMAIN tree
            hasBlock == \E ts \in ReadTimes : Database_get_block(tree, sym, ts).some
        IN  /\ hasPointer <=> hasBlock
            /\ hasPointer =>
                 Database_get_block(tree, sym, Database_get_last_timestamp(tree, sym)).some

\* C12: insert_block is atomic.  At every moment, inside a transaction and
\* after an aborted one included, the tree holds exactly what the committed
\* inserts wrote; a reader finds a pointer for a symbol exactly when it finds
\* a block, and the block the pointer names; and a step that changes the tree
\* brings the block entry and the pointer of one insert_block together.
C12_InsertAtomic ==
    /\ [](tree = Committed(hist))
    /\ [](PairVisible)
    /\ [][ tree' # tree =>
             /\ Database_get_block(tree', tx.symbol, tx.timestamp) = Some(tx.data)
             /\ TreeLastKey(tx.symbol) \in DOMAIN tree'
             /\ Database_get_last_timestamp(tree', tx.symbol) = tx.timestamp ]_vars

\* a reader asked for the block of the running transaction, both writes made
\* and not yet committed, and found nothing; an earlier insert is committed
C12_Witness ==
    /\ tx.pc = "commit"
    /\ hist.blocks # <<>>
    /\ read.op = "get_block"
    /\ read.symbol = tx.symbol
    /\ read.timestamp = tx.timestamp
    /\ read.result = None

\* C14: get_block(symbol, block_start) returns None exactly when no
\* insert_block ever succeeded for that symbol and block_start, and otherwise
\* the data of the latest one, whatever was inserted under other symbols or
\* block starts.
C14_GetBlockRoundTrip ==
    read.op = "get_block" =>
        read.result =
            IF <<read.symbol, read.timestamp>> \in DOMAIN hist.blocks
            THEN Some(hist.blocks[<<read.symbol, read.timestamp>>])
            ELSE None

\* the data of the first insert is read back after a second insert elsewhere
C14_Witness ==
    /\ read.op = "get_block"
    /\ read.result = Some(<<1>>)
    /\ Cardinality(DOMAIN hist.blocks) = 2

\* C16: get_last_timestamp(symbol) is 0 when no insert_block succeeded for
\* the symbol, and otherwise the block_start of the latest one that did.
C16_LastTimestamp ==
    read.op = "get_last_timestamp" =>
        read.result = IF read.symbol \in DOMAIN hist.last
                      THEN hist.last[read.symbol]
                      ELSE 0

\* the later block was inserted first: the pointer is the latest, not the largest
C16_Witness ==
    /\ read.op = "get_last_timestamp"
    /\ read.symbol = SymA
    /\ read.result = 60000000
    /\ <<SymA, 120000000>> \in DOMAIN hist.blocks

Undecodable(entry) == entry.present /\ ~(entry.xz_ok /\ entry.bincode_ok)

C19_ViewportRange ==
    /\ 0 <= visible_range[1]
    /\ visible_range[1] <= visible_range[2]
    /\ visible_range[2] <= Len(dw_bars)

\* C20: after a rebuild, the price range update_price_range_extrema gives for
\* a visible range within the bars is the smallest low and the largest high
\* of the bars of that range.
C20_ExtremaBruteForce ==
    ( /\ min_indexes.some
      /\ 0 <= pricedRange[1]
      /\ pricedRange[1] < pricedRange[2]
      /\ pricedRange[2] <= Len(dw_bars) ) =>
        price = << MinOf({ dw_bars[i].low : i \in pricedRange[1] + 1 .. pricedRange[2] }),
                   MaxOf({ dw_bars[i].high : i \in pricedRange[1] + 1 .. pricedRange[2] }) >>

(***************************************************************************)
(* Claims about update_loop, checked under SpecLoop.                       *)
(***************************************************************************)
\* C18: in continuous mode a failed fetch is tried again, so update_loop
\* returns a fetch error only after more than one fetch has failed.
C18_RetryBeforeFatal ==
    (loop_pc = "returned" /\ loop_result.kind = "fetch") => fetch_failures >= 2

(***************************************************************************)
(* Claims about get_dbtimestamp, checked under SpecDbts.                   *)
(***************************************************************************)
\* C25: get_dbtimestamp is idempotent and floor-aligning.  For every
\* timestamp t (epoch milliseconds, 0 or later), the block start of the
\* block start of t is the block start of t, the block start is a multiple
\* of N*60000, and block_start(t) <= t < block_start(t) + N*60000.
C25_BlockStartFloor ==
    /\ dbts.pc \in {"once", "twice"} =>
          /\ dbts.once % (BLOCK_SIZE * MINUTE_MS) = 0
          /\ dbts.once <= dbts.t
          /\ dbts.t < dbts.once + BLOCK_SIZE * MINUTE_MS
    /\ dbts.pc = "twice" => dbts.twice = dbts.once

\* the last millisecond of a block after the first: floored twice
C25_Witness ==
    /\ dbts.pc = "twice"
    /\ dbts.t = 2 * SYNC_STEP_MS - 1
    /\ dbts.once = SYNC_STEP_MS

(***************************************************************************)
(* Further claims about sync_data, checked under Spec.                     *)
(***************************************************************************)
\* C26: every block sync writes to the store is block-aligned: its key, and
\* the open_time of its first candle, is floor(open_time / (N*60000)) *
\* N*60000, whatever candles the remote source returned for the request.
C26_BlocksAligned ==
    \A k \in DOMAIN db_blocks :
        /\ k[2] = get_dbtimestamp(k[2])
        /\ RunTime(db_blocks[k], 0) = k[2]

\* C30: sync terminates and progresses in order.  A call of sync_data
\* returns after finitely many requests; the requested start times go up by
\* exactly one block span (N*60000 ms) from one to the next, each is below
\* end_time, and the call returns Ok at the first start >= end_time; a fetch
\* that fails ends the call at once with that error.
C30_SyncProgress ==
    /\ [](\A i \in 1 .. Len(requests) :
             /\ requests[i] < end_time
             /\ i > 1 => requests[i] = requests[i - 1] + BLOCK_SIZE * MINUTE_MS)
    /\ []((sync_pc = "idle" /\ sync_result = Ok) =>
             /\ current_time >= end_time
             /\ requests # <<>> =>
                   current_time = requests[Len(requests)] + BLOCK_SIZE * MINUTE_MS)
    /\ [][ (requests' # requests /\ lastOutcome'.kind = "fetch") =>
             /\ sync_pc' = "idle"
             /\ sync_result'.kind = "fetch" ]_vars
    /\ (sync_pc = "loop" ~> sync_pc = "idle")

\* a sync from an unaligned start returned Ok after two requests
C30_Witness ==
    /\ sync_pc = "idle"
    /\ sync_result = Ok
    /\ Len(requests) = 2
    /\ start_time # get_dbtimestamp(start_time)

(***************************************************************************)
(* Further claims about the viewport.                                      *)
(***************************************************************************)
\* C24: after a successful rebuild that produced L bars, visible_range is
\* (max(0, L - 200), L): the most recent up to 200 bars are visible, and the
\* range is (0, 0) when no bar was produced.  Checked under SpecRebuild.
C24_RecentWindow ==
    [][ view_result'.kind = "ok" =>
          visible_range' = << MaxOf({0, Len(dw_bars') - 200}), Len(dw_bars') >> ]_vars

\* 250 bars were built: the last 200 are visible
C24_Witness ==
    /\ view_result.kind = "ok"
    /\ Len(dw_bars) = 250
    /\ visible_range = <<50, 250>>

\* C22: pan and zoom change only visible_range and the pixel pan offset.
\* In every frame that handles a zoom button, a drag or a turn of the wheel,
\* the bar vector, min_indexes, max_indexes, the recent buffer and the
\* resampler remainder are left as they were.  Checked under SpecView.
C22_PanZoomFrame ==
    [][ (FrameZoomButton \/ FrameDrag \/ FrameScroll) =>
          UNCHANGED <<dw_bars, min_indexes, max_indexes, recent_data,
                      timeframe_remainder>> ]_vars

\* three bars are loaded and indexed; a drag moved the range after a zoom
\* had narrowed it
C22_Witness ==
    /\ Len(dw_bars) = 3
    /\ min_indexes.some
    /\ max_indexes.some
    /\ view_result = NoSync
    /\ visible_range = <<0, 2>>
    /\ pricedRange = <<1, 3>>

(***************************************************************************)
(* Claims about the DataWindow's methods, checked under SpecWindow.        *)
(***************************************************************************)
\* C21: whatever pan steps, zoom steps and calls of
\* update_price_range_extrema and get_max_volume came before, a call of
\* get_max_volume returns the largest volume of the bars of the visible
\* range as it is at the call, and 0 when that range holds no bar.
C21_MaxVolumeCurrent ==
    max_volume.some =>
        max_volume.value =
            MaxOf({0} \cup { dw_bars[i].volume :
                               i \in MaxOf({visible_range[1], 0}) + 1 ..
                                     MinOf({visible_range[2], Len(dw_bars)}) })

\* the latest rebuild failed: sync returned the error of a fetch, or a block
\* read failed
RebuildFailed == view_result.kind \in {"fetch", "corrupt"}

\* C23: a failed rebuild leaves the loaded viewport valid.  When
\* get_data_window returns an error, from sync or from a read of the store,
\* it returns with bars, visible_range, min_indexes, max_indexes and price
\* as they were before the call; the frame ends with bars, range and indexes
\* unchanged, and update_data_window adds a status message that reports the
\* failure.  Checked under SpecView.
C23_FailedRebuildKeepsView ==
    [][ RebuildFailed' =>
          /\ get_data_window(ViewNow,
                             IF view_result'.kind = "fetch" THEN view_result' ELSE Ok,
                             lastReads', <<>>, <<>>, <<>>)
                = [result |-> view_result', dw |-> ViewNow]
          /\ UNCHANGED <<dw_bars, visible_range, min_indexes, max_indexes>>
          /\ price' = update_price_range_extrema(ViewNow).price
          /\ status_messages' = Append(status_messages, "error") ]_vars

\* bars were loaded and zoomed into; the rebuild after that failed in the
\* fetch, and the range is still the zoomed one
C23_Witness ==
    /\ view_result.kind = "fetch"
    /\ Len(dw_bars) = 3
    /\ visible_range = <<1, 3>>
    /\ status_messages = <<"updated", "error">>

(***************************************************************************)
(* Claims about the display thread, checked under SpecUi.                  *)
(***************************************************************************)
\* C27: network fetches and the pauses between requests never block the
\* display path.  While a sync is in its loop, fetching or pausing, input
\* that has arrived can be handled: the display loop can run a frame.
C27_DisplayNotBlocked ==
    (sync_pc = "loop" /\ pending > 0) => ENABLED UiFrame


C31_PauseBetweenRequests ==
    \A i \in 2 .. Len(requests) : slept[i]


(***************************************************************************)
(* Claims about a rebuild taken block by block, checked under SpecBlocks.  *)
(***************************************************************************)
\* C35: At the start of every rebuild, after any earlier successful and
\* failed rebuilds, timeframe_remainder is empty.
C35_RemainderEmptyAtStart ==
    rb.pc = "blocks" => rb.carried = 0

\* the cut is made in the first block loaded and in no later one
C32_CutInFirstBlockOnly ==
    \A i \in 1 .. Len(rb.trims) :
        rb.trims[i].removed =
            IF i = 1 THEN FirstHour(StoredBlock(rb.trims[i].block)) - 1 ELSE 0

\* C32: Exactly one loaded block, the first one found, has the candles
\* before its first hh:00 candle removed, no candle of a later block is
\* removed, and when at least one block was loaded the first bar's time is
\* on a whole hour.
C32_FirstBlockCutToHour ==
    /\ C32_CutInFirstBlockOnly
    /\ (rb.result = "ok" /\ rb.trims # <<>>) => HourMinute(bars[1].time) = 0

\* C33: Blocks are resampled with dolastbar = false and only recent_data
\* with dolastbar = true: every bar but the last aggregates exactly
\* timeframe_minutes candles, and the last one is partial only once the
\* tail has been resampled.
C33_OnlyLastBarPartial ==
    \A i \in 1 .. Len(bars) :
        IF i < Len(bars) \/ ~flushed
        THEN bars[i].volume = timeframe_minutes
        ELSE bars[i].volume \in 1 .. timeframe_minutes

\* a rebuild of two blocks and a tail whose last bar is partial
C33_Witness ==
    /\ flushed
    /\ rb.result = "ok"
    /\ Len(rb.trims) >= 2
    /\ Len(bars) > 1
    /\ bars[Len(bars)].volume < timeframe_minutes


(***************************************************************************)
(* Claims about the extrema indexes, checked under SpecView.               *)
(***************************************************************************)
\* `order` holds each of 0 .. n-1 once and key never falls along it
IsSortedPermutation(order, n, key) ==
    /\ Len(order) = n
    /\ \A v \in 0 .. n - 1 : \E k \in 1 .. n : order[k] = v
    /\ \A k \in 1 .. n - 1 : key[order[k] + 1] <= key[order[k + 1] + 1]

\* C34: After every successful rebuild min_indexes and max_indexes are each
\* a permutation of 0 .. len(bars)-1 of the new bars, min_indexes by
\* non-decreasing low and max_indexes by non-increasing high; whatever
\* happens next (failed rebuilds, zoom, drag) they never describe a bar
\* vector of another length than the current one.
C34_IndexesFitBars ==
    (dw_bars # <<>> \/ min_indexes.some \/ max_indexes.some) =>
        /\ min_indexes.some
        /\ max_indexes.some
        /\ IsSortedPermutation(min_indexes.value, Len(dw_bars),
                               [i \in 1 .. Len(dw_bars) |-> dw_bars[i].low])
        /\ IsSortedPermutation(max_indexes.value, Len(dw_bars),
                               [i \in 1 .. Len(dw_bars) |-> 0 - dw_bars[i].high])

\* a rebuild has just produced three bars whose lowest low is at indexes 0
\* and 2, left in the order 2, 0 by the sort, and whose highest high is at
\* index 1
C34_Witness ==
    /\ view_result.kind = "ok"
    /\ Len(dw_bars) = 3
    /\ min_indexes.value = <<2, 0, 1>>
    /\ max_indexes.value[1] = 1


\* the smallest low and the largest high of bars[start .. end-1], the way
\* update_price_range_extrema answers when they are equal
RangeExtrema(b, start, end) ==
    LET min == MinOf({ b[i].low : i \in start + 1 .. end })
        max == MaxOf({ b[i].high : i \in start + 1 .. end })
    IN  IF min >= max THEN <<min, min + 1>> ELSE <<min, max>>

\* C38: When a successful rebuild replaces the bars and leaves visible_range
\* numerically equal to what it was, the price pair that
\* update_price_range_extrema leaves is that of the new bars over
\* visible_range.
C38_PriceFollowsNewBars ==
    [][ ( /\ view_result'.kind = "ok"
          /\ dw_bars' # dw_bars
          /\ visible_range' = visible_range
          /\ visible_range'[1] < visible_range'[2]
          /\ visible_range'[2] <= Len(dw_bars') )
        => price' = RangeExtrema(dw_bars', visible_range'[1], visible_range'[2]) ]_vars


(***************************************************************************)
(* Claims about the blocks sync_data leaves, checked under SpecPause.      *)
(***************************************************************************)
\* the starts of the persisted blocks of the symbol
PersistedStarts == { k[2] : k \in { q \in DOMAIN db_blocks : q[1] = SYMBOL } }

\* C37: After any sequence of sync calls the persisted blocks have no hole
\* (every persisted block but the first has a persisted block in the
\* block-aligned interval before its own) and the last-timestamp pointer is
\* the largest persisted block start.
C37_NoHoleInBlocks ==
    PersistedStarts # {} =>
        /\ \A t \in PersistedStarts :
              t # MinOf(PersistedStarts) =>
                  \E u \in PersistedStarts :
                      get_dbtimestamp(u) = get_dbtimestamp(t) - SYNC_STEP_MS
        /\ get_last_timestamp(db_last, SYMBOL) = MaxOf(PersistedStarts)


(***************************************************************************)
(* Claims about the candles a rebuild is fed, checked under Spec.          *)
(***************************************************************************)
\* C36: After any sequence of sync calls, the rebuild that follows a sync
\* that returned Ok is fed candles of strictly increasing times, so its bars
\* have strictly increasing times and no minute goes into two bars: the
\* recent buffer holds only candles later than every candle of the loaded
\* blocks.
C36_TailAfterBlocks ==
    (sync_pc = "idle" /\ sync_result = Ok) => FeedIncreasing

(***************************************************************************)
(* Claims about the hourly aggregation, checked under SpecAggr.            *)
(***************************************************************************)
\* the hourly record the candles of the store give for one hour
RecordOfStore(a, h) ==
    Aggregated(h, HourGroup(get_range_data(a.src, h, h + HOUR_MS - 1), h))

\* a call that found no candle newer than the call before wrote no record
IdleCallWritesNothing == (ag.called /\ ag.idle) => ag.wrote = {}

\* C39: Hourly aggregation is complete and stable: after any sequence of
\* candle inserts and aggregate_ohlcv_data calls, once a call has returned
\* every stored hourly record has open = first open, high = max high, low =
\* min low, close = last close and volume = sum of volumes over all the
\* candles of its hour that are in the store (so an hour aggregated while
\* incomplete is aggregated again once its other candles arrive), and a call
\* with no new source data writes nothing.
C39_HourlyRecordsComplete ==
    /\ (ag.called /\ ~ag.fresh) =>
           \A h \in DOMAIN ag.aggr : ag.aggr[h] = RecordOfStore(ag, h)
    /\ IdleCallWritesNothing

=============================================================================
